---- MODULE Spec2Model ----
(***************************************************************************)
(* Model of the polling-and-assignment engine of JiraTasksUpdate           *)
(* (src/test.py, class JiraTaskUpdater) and of the part of the Telegram    *)
(* command surface (src/telegram_handlers.py) that writes its run flags.   *)
(*                                                                         *)
(*   Spec      the engine driven by one caller: _process_new_issue,        *)
(*             _process_new_issues_batch, _process_updates_batch and the   *)
(*             passage of time.time()                                      *)
(*   SpecCache the Dedup Cache API called directly (_cache_issue,          *)
(*             _is_cached) with arbitrary identifiers and TTLs             *)
(*   SpecRun   the worker threads: loop(), check_time(), the command       *)
(*             handlers and stop(), interleaved                            *)
(***************************************************************************)
EXTENDS Integers, Sequences, FiniteSets, TLC

VARIABLES
    running_main_loop,      \* self.running_main_loop ("processing enabled")
    running_by_time,        \* self.running_by_time ("time-gate enabled")
    to_assign,              \* self.to_assign, the rotation index
    processed_issues_cache, \* self.processed_issues_cache, a set of keys
    cache_expiry,           \* self.cache_expiry, key -> expiry timestamp
    main_loop_call_count,   \* self.main_loop_call_count
    dry_run,                \* self.dry_run
    bot,                    \* whether self.bot is set (TRUE) or None (FALSE)
    now,                    \* time.time()
    hour,                   \* datetime.now().hour
    calls,                  \* external calls issued by the latest step, in order
    log,                    \* log lines written by the latest step, in order
    picks,                  \* every (operator, chat) pair taken from the rotation so far
    assigned_at,            \* key -> time of the latest entry into _assign_issue, or NoTime
    ret,                    \* return value of the latest direct _is_cached call
    deadline,               \* key -> now + ttl of the latest direct _cache_issue call, or NoTime
    arg,                    \* the ticket passed to the latest direct _process_new_issue call
    loop_pc,                \* position of every invocation of loop()
    tg_pc,                  \* position of the check_time() thread
    flag,                   \* the local one-shot `flag` of check_time()
    tg_checked,             \* check_time() has read the clock during the current hour
    message,                \* the latest inbound Telegram message a handler was called with
    search_updates_call_count, \* self.search_updates_call_count
    upd_pc,                 \* position of search_updates_timeout()
    exit_code,              \* what cli.main() has returned, or NoExit
    rotation,               \* self.assignees, as loaded by __init__
    issues_raw,             \* the argument of the latest _get_list call
    lists,                  \* what the latest _get_list call returned, or NoLists
    new_issues,             \* what the latest updates search returned
    proc                    \* position and locals of every overlapping _process_new_issue

engine_vars == <<to_assign, processed_issues_cache, cache_expiry, calls, log,
                 picks, assigned_at>>
watch_vars == <<search_updates_call_count, upd_pc>>
\* State outside the worker loops and the engine's fields.
rest_vars == <<exit_code, rotation, issues_raw, lists, new_issues, proc>>
run_vars == <<running_main_loop, running_by_time, main_loop_call_count, hour,
              loop_pc, tg_pc, flag, tg_checked, message, watch_vars, rest_vars>>
vars == <<running_main_loop, running_by_time, to_assign, processed_issues_cache,
          cache_expiry, main_loop_call_count, dry_run, bot, now, hour, calls,
          log, picks, assigned_at, ret, deadline, arg, loop_pc, tg_pc, flag,
          tg_checked, message, search_updates_call_count, upd_pc, exit_code,
          rotation, issues_raw, lists, new_issues, proc>>

(***************************************************************************)
(* Configuration and inputs                                                *)
(***************************************************************************)

\* Length of the configured rotation.
RotationLen == 2

\* The rotation, (operator, notify target) pairs: the spec's scenario, extended.
Operators == << <<"alice", 100>>, <<"bob", 200>>, <<"carol", 300>>, <<"dave", 400>> >>
assignees == SubSeq(Operators, 1, RotationLen)

\* Owner chat id, the recipient of update notifications.
my_id == 105517177

transition_id == "21"

\* TTL of a rule-filtered ticket (default of _cache_issue) and of an assigned one.
LongTTL == 3600
ShortTTL == 300

\* Ticket identifiers; K0 is the permanently skipped one.
Keys == {"K0", "K1", "K2"}
to_skip == {"K0"}

\* Text is a sequence of one-character strings over this alphabet.
skip_comment_keywords == { <<"v", "i">> }
skip_name_keywords == { <<"p", "r">> }
skip_creators == {"vivashov"}

Creators == {"user", "vivashov"}
Summaries == { <<"x", "P", "R">>, <<"r", "p">> }
CommentLists == { << <<"x", "v">>, <<"i">> >>, << <<"V", "i">> >> }
NoAssignee == "None"
Assignees == {NoAssignee, "alice"}

\* time.time() at construction, and the instants the clock is observed at.
StartTime == 1000
Offsets == {0, 299, 300, 3599, 3600}
Instants == {StartTime + d : d \in Offsets}
NoTime == -1
\* No direct call yet: a record that is no ticket.
NoArg ==
    [key |-> "-", creator |-> "-", summary |-> <<>>, comments |-> <<>>,
     assignee |-> "None", wellformed |-> FALSE]

\* No handler has been called yet.
NoMessage == [chat_id |-> 0, text |-> "", sent |-> FALSE]

\* External calls that may raise while one ticket is processed.
FailModes == {{}, {"transition"}, {"send"}, {"assign"}}

WellFormed ==
    [key : Keys, creator : Creators, summary : Summaries, comments : CommentLists,
     assignee : Assignees, wellformed : {TRUE}]

\* A record without the fields _process_new_issue reads (KeyError on access).
Malformed ==
    {[key |-> k, creator |-> "user", summary |-> <<>>, comments |-> <<>>,
      assignee |-> NoAssignee, wellformed |-> FALSE] : k \in Keys}

Tickets == WellFormed \cup Malformed

(***************************************************************************)
(* Text operations: str.lower(), "".join(...), the substring test `in`     *)
(***************************************************************************)

LowerChar(c) ==
    CASE c = "P" -> "p"
      [] c = "R" -> "r"
      [] c = "V" -> "v"
      [] c = "I" -> "i"
      [] OTHER -> c

lower(s) == [i \in 1..Len(s) |-> LowerChar(s[i])]

RECURSIVE join(_)
join(parts) == IF parts = <<>> THEN <<>> ELSE Head(parts) \o join(Tail(parts))

contains(sub, s) ==
    \E i \in 0..(Len(s) - Len(sub)) : SubSeq(s, i + 1, i + Len(sub)) = sub

(***************************************************************************)
(* Rule Engine: the tests of _process_new_issue                            *)
(***************************************************************************)

in_skip_list_never(t) == FALSE

in_skip_list(t) == t.key \in to_skip

comment_matched_each(t) ==
    \E name \in skip_comment_keywords :
        \E i \in 1..Len(t.comments) : contains(name, t.comments[i])

comment_matched(t) ==
    \E name \in skip_comment_keywords : contains(name, join(t.comments))

name_or_creator_matched_cased(t) ==
    \/ \E word \in skip_name_keywords : contains(word, t.summary)
    \/ t.creator \in skip_creators

name_or_creator_matched(t) ==
    \/ \E word \in skip_name_keywords : contains(word, lower(t.summary))
    \/ t.creator \in skip_creators

(***************************************************************************)
(* The engine state a handler works on, as a record                        *)
(***************************************************************************)

\* The updater's fields as one step starts: the step's outputs are empty.
Self ==
    [cache |-> processed_issues_cache, expiry |-> cache_expiry,
     to_assign |-> to_assign, calls |-> <<>>, log |-> <<>>,
     picks |-> picks, assigned_at |-> assigned_at, raised |-> FALSE]

Call(op, key, chat, user) == [op |-> op, key |-> key, chat |-> chat, user |-> user]

\* logger.info / logger.exception with the ticket it is about
Logged(s, key, msg) == [s EXCEPT !.log = Append(s.log, [key |-> key, msg |-> msg])]

Called(s, c) == [s EXCEPT !.calls = Append(s.calls, c)]

(***************************************************************************)
(* Dedup Cache                                                             *)
(***************************************************************************)

_is_cached_no_expiry(s, issue_key) ==
    [ret |-> issue_key \in s.cache, s |-> s]

_is_cached_inverted(s, issue_key) ==
    IF issue_key \notin s.cache
    THEN [ret |-> FALSE, s |-> s]
    ELSE IF /\ issue_key \in DOMAIN s.expiry
            /\ s.expiry[issue_key] # 0
            /\ now > s.expiry[issue_key]
         THEN [ret |-> TRUE, s |-> s]
         ELSE [ret |-> FALSE,
               s |-> [s EXCEPT !.cache = s.cache \ {issue_key},
                               !.expiry = [k \in DOMAIN s.expiry \ {issue_key} |->
                                             s.expiry[k]]]]

\* _is_cached: the result and the fields after the call.
_is_cached(s, issue_key) ==
    IF issue_key \notin s.cache
    THEN [ret |-> FALSE, s |-> s]
    ELSE IF /\ issue_key \in DOMAIN s.expiry
            /\ s.expiry[issue_key] # 0
            /\ now < s.expiry[issue_key]
         THEN [ret |-> TRUE, s |-> s]
         ELSE [ret |-> FALSE,
               s |-> [s EXCEPT !.cache = s.cache \ {issue_key},
                               !.expiry = [k \in DOMAIN s.expiry \ {issue_key} |->
                                             s.expiry[k]]]]

\* An insert that forgot the expiry map.
_cache_issue_set_only(s, issue_key, ttl_seconds) ==
    [s EXCEPT !.cache = s.cache \cup {issue_key}]

\* _cache_issue: the key joins the set and its expiry is time.time() + ttl.
_cache_issue(s, issue_key, ttl_seconds) ==
    [s EXCEPT !.cache = s.cache \cup {issue_key},
              !.expiry = [k \in DOMAIN s.expiry \cup {issue_key} |->
                            IF k = issue_key THEN now + ttl_seconds ELSE s.expiry[k]]]

(***************************************************************************)
(* Assignment Rotator and the assignment path                              *)
(***************************************************************************)

pick_first(i) == rotation[1]

\* self.assignees[self.to_assign] (Python indexes from 0)
pick(i) == rotation[i + 1]

rotate_twice(i) == (i + 2) % Len(rotation)

rotate(i) == (i + 1) % Len(rotation)

_safe_send_message_raising(s, chat_id, t, fails) ==
    IF bot
    THEN LET c == Called(s, Call("send", t.key, chat_id, "-"))
         IN  IF "send" \in fails THEN [c EXCEPT !.raised = TRUE] ELSE c
    ELSE s

\* send_message through _safe_send_message: without a bot nothing is sent; a
\* failure of bot.send_message is logged and swallowed.
_safe_send_message(s, chat_id, t, fails) ==
    IF bot
    THEN LET c == Called(s, Call("send", t.key, chat_id, "-"))
         IN  IF "send" \in fails THEN Logged(c, t.key, "error sending") ELSE c
    ELSE s

\* _reassign_if_needed: a failure of jira.assign_issue is logged and swallowed.
_reassign_if_needed(s, t, expected_assignee, fails) ==
    IF t.assignee # expected_assignee
    THEN LET c == Called(s, Call("assign", t.key, 0, expected_assignee))
         IN  IF "assign" \in fails THEN Logged(c, t.key, "error reassigning") ELSE c
    ELSE s

notify_step_assign_first(s, t, pair, fails) ==
    IF ~dry_run
    THEN _safe_send_message(_reassign_if_needed(s, t, pair[1], fails), pair[2], t, fails)
    ELSE Logged(s, t.key, "would notify")

\* Lines 357-361: notification, then reassignment, unless dry_run. An
\* exception leaving the notification would skip the reassignment.
notify_step(s, t, pair, fails) ==
    IF ~dry_run
    THEN LET m == _safe_send_message(s, pair[2], t, fails)
         IN  IF m.raised THEN m ELSE _reassign_if_needed(m, t, pair[1], fails)
    ELSE Logged(s, t.key, "would notify")

\* Lines 363-364: whatever is raised inside _assign_issue is logged there.
assign_except(s, t) ==
    IF s.raised THEN [Logged(s, t.key, "error assigning") EXCEPT !.raised = FALSE]
    ELSE s

\* An assignment that did nothing but log in dry-run mode.
_assign_issue_inert_dry_run(s, t, fails) ==
    IF dry_run THEN Logged(s, t.key, "would transition")
    ELSE LET s0 == [s EXCEPT !.assigned_at = [s.assigned_at EXCEPT ![t.key] = now]]
             tr == Called(s0, Call("transition", t.key, 0, transition_id))
         IN  IF "transition" \in fails
             THEN assign_except([tr EXCEPT !.raised = TRUE], t)
             ELSE LET pair == pick(tr.to_assign)
                      s2 == [Logged(Logged(tr, t.key, "transitioned"), t.key, "assigning")
                                EXCEPT !.to_assign = rotate(tr.to_assign),
                                       !.picks = Append(tr.picks, pair)]
                  IN  assign_except(notify_step(s2, t, pair, fails), t)

\* An assignment that picked the operator and moved the index before the
\* transition request.
_assign_issue_picking_first(s, t, fails) ==
    LET s0 == [s EXCEPT !.assigned_at = [s.assigned_at EXCEPT ![t.key] = now]]
        pair == pick(s0.to_assign)
        s1 == [s0 EXCEPT !.to_assign = rotate(s0.to_assign),
                         !.picks = Append(s0.picks, pair)]
        tr == Called(s1, Call("transition", t.key, 0, transition_id))
    IN  IF ~dry_run /\ "transition" \in fails
        THEN assign_except([tr EXCEPT !.raised = TRUE], t)
        ELSE LET s2 == IF ~dry_run THEN Logged(tr, t.key, "transitioned")
                       ELSE Logged(s1, t.key, "would transition")
             IN  assign_except(notify_step(Logged(s2, t.key, "assigning"), t, pair, fails), t)

\* _assign_issue; fails is the set of external calls that raise for this ticket.
\* Indexing an empty self.assignees raises IndexError (line 352), after the
\* transition.
\* Every exception is caught inside, so the caller always continues.
_assign_issue(s, t, fails) ==
    LET s0 == [s EXCEPT !.assigned_at = [s.assigned_at EXCEPT ![t.key] = now]]
        tr == Called(s0, Call("transition", t.key, 0, transition_id))
    IN  IF ~dry_run /\ "transition" \in fails
        THEN assign_except([tr EXCEPT !.raised = TRUE], t)
        ELSE LET s1 == IF ~dry_run THEN Logged(tr, t.key, "transitioned")
                       ELSE Logged(s0, t.key, "would transition")
                 pair == pick(s1.to_assign)
                 s2 == [Logged(s1, t.key, "assigning")
                           EXCEPT !.to_assign = rotate(s1.to_assign),
                                  !.picks = Append(s1.picks, pair)]
             IN  IF s1.to_assign >= Len(rotation)
                 THEN assign_except([s1 EXCEPT !.raised = TRUE], t)
                 ELSE assign_except(notify_step(s2, t, pair, fails), t)

cache_after_assign_unless_failed(s, t) ==
    IF \E i \in 1..Len(s.log) :
          /\ s.log[i].key = t.key
          /\ s.log[i].msg \in {"error assigning", "error sending", "error reassigning"}
    THEN s
    ELSE _cache_issue(s, t.key, ShortTTL)

\* Line 329: after _assign_issue has returned the ticket is cached for the
\* short TTL, whatever happened inside.
cache_after_assign(s, t) == _cache_issue(s, t.key, ShortTTL)

(***************************************************************************)
(* New-Ticket Poller: one ticket, one batch                                *)
(***************************************************************************)

\* A handler that put a ticket of the skip list into the cache like any other
\* filtered ticket.
_process_new_issue_caching_skipped(s, t, fails) ==
    IF in_skip_list(t) THEN _cache_issue(Logged(s, t.key, "skip list"), t.key, LongTTL)
    ELSE LET c == _is_cached(s, t.key)
         IN  IF c.ret THEN Logged(c.s, t.key, "in cache")
             ELSE IF ~t.wellformed THEN [c.s EXCEPT !.raised = TRUE]
             ELSE IF comment_matched(t) \/ name_or_creator_matched(t)
                  THEN _cache_issue(Logged(c.s, t.key, "matched"), t.key, LongTTL)
             ELSE cache_after_assign(_assign_issue(c.s, t, fails), t)

\* _process_new_issue. raised = TRUE when the call ends by an exception (the
\* record lacks a field the handler reads).
_process_new_issue(s, t, fails) ==
    IF in_skip_list(t) THEN Logged(s, t.key, "skip list")
    ELSE LET c == _is_cached(s, t.key)
         IN  IF c.ret THEN Logged(c.s, t.key, "in cache")
             ELSE IF ~t.wellformed THEN [c.s EXCEPT !.raised = TRUE]
             ELSE IF comment_matched(t)
                  THEN _cache_issue(Logged(c.s, t.key, "comment matched"), t.key, LongTTL)
             ELSE IF name_or_creator_matched(t)
                  THEN _cache_issue(Logged(c.s, t.key, "name/creator matched"),
                                    t.key, LongTTL)
             ELSE cache_after_assign(_assign_issue(c.s, t, fails), t)

\* The for loop of _process_new_issues_batch: the first exception ends it.
RECURSIVE process_each(_, _)
process_each(s, batch) ==
    IF batch = <<>> \/ s.raised THEN s
    ELSE process_each(_process_new_issue(s, Head(batch).t, Head(batch).fails),
                      Tail(batch))

_process_new_issues_batch_uncaught(s, batch, search_fails) ==
    IF search_fails THEN [s EXCEPT !.raised = TRUE]
    ELSE process_each(s, batch)

\* _process_new_issues_batch: a failing search, like any exception of the loop
\* body, is caught and logged here and never reaches the caller.
_process_new_issues_batch(s, batch, search_fails) ==
    IF search_fails THEN Logged(s, "-", "error fetching")
    ELSE LET r == process_each(s, batch)
         IN  IF r.raised THEN [Logged(r, "-", "error fetching") EXCEPT !.raised = FALSE]
             ELSE r

(***************************************************************************)
(* Update Watcher: one batch                                               *)
(***************************************************************************)

\* A watcher that notified the operator whose turn it is and moved the rotation.
_safe_send_message_updates_to_picked(s, t) ==
    IF bot
    THEN [Called(s, Call("send", t.key, rotation[s.to_assign + 1][2], "-"))
             EXCEPT !.to_assign = (s.to_assign + 1) % Len(rotation)]
    ELSE s

\* _safe_send_message_updates / send_message_updates: to the owner, best effort.
_safe_send_message_updates(s, t) ==
    IF bot THEN Called(s, Call("send", t.key, my_id, "-")) ELSE s

send_update_always(s, t) ==
    IF ~t.wellformed THEN [s EXCEPT !.raised = TRUE]
    ELSE _safe_send_message_updates(Logged(s, t.key, "updated"), t)

\* The loop body of _process_updates_batch for one ticket.
send_update(s, t) ==
    IF ~t.wellformed THEN [s EXCEPT !.raised = TRUE]
    ELSE IF ~dry_run THEN _safe_send_message_updates(Logged(s, t.key, "updated"), t)
    ELSE Logged(Logged(s, t.key, "updated"), t.key, "would send update")

RECURSIVE update_each(_, _)
update_each(s, batch) ==
    IF batch = <<>> \/ s.raised THEN s
    ELSE update_each(send_update(s, Head(batch).t), Tail(batch))

_process_updates_batch(s, batch, search_fails) ==
    IF search_fails THEN Logged(s, "-", "error fetching")
    ELSE LET r == update_each(s, batch)
         IN  IF r.raised THEN [Logged(r, "-", "error fetching") EXCEPT !.raised = FALSE]
             ELSE r

(***************************************************************************)
(* Bounds of the exploration                                               *)
(***************************************************************************)

\* Rotator picks explored in one run.
MaxPicks == 3
\* Tickets one search returns.
MaxBatch == 2

\* The tickets a search may return in the batch actions, with the calls that
\* raise for each: one per outcome of _process_new_issue.
BatchItems ==
    LET T(k, c, sm, cm, a, w) ==
            [key |-> k, creator |-> c, summary |-> sm, comments |-> cm,
             assignee |-> a, wellformed |-> w]
    IN  { [t |-> T("K0", "user", <<"r", "p">>, <<>>, NoAssignee, TRUE), fails |-> {}],
          [t |-> T("K1", "user", <<"r", "p">>, <<>>, NoAssignee, TRUE), fails |-> {}],
          [t |-> T("K2", "user", <<"r", "p">>, <<>>, "alice", TRUE), fails |-> {}],
          [t |-> T("K2", "user", <<"r", "p">>, <<>>, NoAssignee, TRUE),
           fails |-> {"transition"}],
          [t |-> T("K2", "user", <<>>, <<>>, NoAssignee, FALSE), fails |-> {}] }

Batches == UNION {[1..n -> BatchItems] : n \in 0..MaxBatch}

\* A ticket that passes every rule reaches the calls that may raise.
FailsFor(t) ==
    IF t.wellformed /\ ~in_skip_list(t) /\ ~comment_matched(t)
       /\ ~name_or_creator_matched(t)
    THEN FailModes ELSE {{}}

(***************************************************************************)
(* Initial state: the fields after __init__                                *)
(***************************************************************************)

\* main() has not returned.
NoExit == -1

\* _get_list has not been called.
NoLists == [issues |-> <<>>, creators |-> <<>>, names |-> <<>>, raised |-> FALSE]

\* Two invocations of loop() whose batches run at the same time.
Workers == {"a", "b"}

\* _process_new_issue has not been entered; pair is the local
\* (assignee_username, chat_id), idx the index read by line 353.
NotCalled == [pc |-> "idle", t |-> NoArg, pair |-> <<>>, idx |-> 0]

InitFields ==
    /\ running_main_loop = TRUE
    /\ running_by_time = TRUE
    /\ to_assign = 0
    /\ processed_issues_cache = {}
    /\ cache_expiry = << >>
    /\ main_loop_call_count = 0
    /\ now = StartTime
    /\ calls = <<>>
    /\ log = <<>>
    /\ picks = <<>>
    /\ assigned_at = [k \in Keys |-> NoTime]
    /\ ret = FALSE
    /\ arg = NoArg
    /\ deadline = [k \in Keys |-> NoTime]
    /\ loop_pc = [r \in {"main", "tg", "timer"} |-> "idle"]
    /\ tg_pc = "idle"
    /\ flag = FALSE
    /\ tg_checked = FALSE
    /\ message = NoMessage
    /\ search_updates_call_count = 0
    /\ upd_pc = "idle"
    /\ exit_code = NoExit
    /\ issues_raw = <<>>
    /\ lists = NoLists
    /\ new_issues = <<>>
    /\ proc = [w \in Workers |-> NotCalled]

Init ==
    /\ InitFields
    /\ rotation = assignees
    /\ dry_run \in BOOLEAN
    /\ bot \in BOOLEAN
    /\ hour = 0

(***************************************************************************)
(* Spec: the engine driven by one caller                                   *)
(***************************************************************************)

\* The fields and the step's outputs after a handler has run.
Commit(r) ==
    /\ to_assign' = r.to_assign
    /\ processed_issues_cache' = r.cache
    /\ cache_expiry' = r.expiry
    /\ calls' = r.calls
    /\ log' = r.log
    /\ picks' = r.picks
    /\ assigned_at' = r.assigned_at

\* time.time() moves on to a later instant.
Tick ==
    /\ \E t \in Instants : t > now /\ now' = t
    /\ calls' = <<>>
    /\ log' = <<>>
    /\ arg' = NoArg
    /\ UNCHANGED <<to_assign, processed_issues_cache, cache_expiry, picks,
                   assigned_at, dry_run, bot, ret, deadline, run_vars>>

\* A direct call of _process_new_issue, as the unit tests make it.
ProcessNewIssue(t, fails) ==
    /\ Len(picks) < MaxPicks
    /\ Commit(_process_new_issue(Self, t, fails))
    /\ UNCHANGED <<dry_run, bot, now, ret, deadline, arg, run_vars>>

\* One _process_new_issues_batch, as process_once and loop call it.
NewIssuesBatch(batch, search_fails) ==
    /\ Len(picks) + Len(batch) <= MaxPicks
    /\ Commit(_process_new_issues_batch(Self, batch, search_fails))
    /\ UNCHANGED <<dry_run, bot, now, ret, deadline, arg, run_vars>>

\* One _process_updates_batch, as process_once and search_updates_timeout call it.
UpdatesBatch(batch, search_fails) ==
    /\ Commit(_process_updates_batch(Self, batch, search_fails))
    /\ UNCHANGED <<dry_run, bot, now, ret, deadline, arg, run_vars>>

Next ==
    \/ Tick
    \/ \E t \in Tickets : \E fails \in FailsFor(t) : ProcessNewIssue(t, fails)

Spec == Init /\ [][Next]_vars

(***************************************************************************)
(* SpecRules: direct calls, with the ticket of the latest call kept        *)
(***************************************************************************)

ProcessTicket(t, fails) ==
    /\ Len(picks) < MaxPicks
    /\ Commit(_process_new_issue(Self, t, fails))
    /\ arg' = t
    /\ UNCHANGED <<dry_run, bot, now, ret, deadline, run_vars>>

\* The tickets of the skipped key and of one other key, with every field
\* combination.
RuleTickets == {t \in Tickets : t.key \in {"K0", "K1"}}

NextRules ==
    \/ Tick
    \/ \E t \in RuleTickets : \E fails \in FailsFor(t) : ProcessTicket(t, fails)

SpecRules == Init /\ [][NextRules]_vars

(***************************************************************************)
(* SpecBatch: whole batches, as process_once and the two loops run them    *)
(***************************************************************************)

\* Batches follow one another within the short TTL or right after it. A search
\* that raises returns no tickets.
NextBatch ==
    \/ Tick /\ now' <= StartTime + ShortTTL
    \/ \E batch \in Batches : NewIssuesBatch(batch, FALSE)
    \/ \E batch \in Batches : UpdatesBatch(batch, FALSE)
    \/ NewIssuesBatch(<<>>, TRUE)
    \/ UpdatesBatch(<<>>, TRUE)

SpecBatch == Init /\ [][NextBatch]_vars

(***************************************************************************)
(* SpecCache: the Dedup Cache API called directly                          *)
(***************************************************************************)

\* TTLs passed to _cache_issue (any ttl > 0).
TTLs == {1, ShortTTL, LongTTL}

CacheIssue(issue_key, ttl_seconds) ==
    LET r == _cache_issue(Self, issue_key, ttl_seconds)
    IN  /\ processed_issues_cache' = r.cache
        /\ cache_expiry' = r.expiry
        /\ deadline' = [deadline EXCEPT ![issue_key] = now + ttl_seconds]
        /\ log' = <<[key |-> issue_key, msg |-> "_cache_issue"]>>
        /\ UNCHANGED <<to_assign, calls, picks, assigned_at, ret, dry_run, bot, now,
                       arg, run_vars>>

IsCached(issue_key) ==
    LET c == _is_cached(Self, issue_key)
    IN  /\ ret' = c.ret
        /\ processed_issues_cache' = c.s.cache
        /\ cache_expiry' = c.s.expiry
        /\ log' = <<[key |-> issue_key, msg |-> "_is_cached"]>>
        /\ UNCHANGED <<to_assign, calls, picks, assigned_at, deadline, dry_run, bot,
                       now, arg, run_vars>>

NextCache ==
    \/ Tick
    \/ \E k \in Keys : \E ttl \in TTLs : CacheIssue(k, ttl)
    \/ \E k \in Keys : IsCached(k)

InitCache ==
    /\ InitFields
    /\ rotation = assignees
    /\ dry_run = FALSE
    /\ bot = TRUE
    /\ hour = 0

SpecCache == InitCache /\ [][NextCache]_vars

(***************************************************************************)
(* SpecRun: the worker threads                                             *)
(*                                                                         *)
(* loop() runs in the main_loop thread, again in the thread of a Timer it  *)
(* scheduled for itself, and inline in the time_loop thread when           *)
(* check_time() calls it. Every such invocation is a runner:               *)
(*   "main"   thread_main_loop and the Timer invocations that follow it    *)
(*   "tg"     the call self.loop() made by check_time()                    *)
(*   "timer"  the Timer invocation scheduled by the "tg" call              *)
(* loop_pc[r]: "idle" (never invoked), "entry", "check" (line 244),        *)
(* "batch" (line 248), "sleep" (line 251), "timer" (a Timer is pending),   *)
(* "done" (returned).                                                      *)
(* tg_pc: "idle", "check" (line 540), "settle" (line 553), "call_loop"     *)
(* (line 556, before the call), "in_loop" (inside the call), "sleep"       *)
(* (line 559).                                                             *)
(***************************************************************************)

Runners == {"main", "tg", "timer"}

Hours == 0..23
sleep_hours == {23, 0, 1, 2, 3, 4, 5, 6, 7, 8, 9, 10}
wake_up_hour == 11

\* polling.max_call_count, the ceiling of main_loop_call_count.
max_call_count == 2

\* The owner and a stranger write to the bot.
ChatIds == {my_id, 7}

\* What a search returns while the threads run, unless it raises: no ticket.
\* What a returned ticket undergoes is explored by SpecBatch.
RunBatches == { <<>> }

InitRun ==
    /\ InitFields
    /\ rotation = assignees
    /\ dry_run = FALSE
    /\ bot = TRUE
    /\ hour \in Hours

\* The feature toggles start() asks the configuration for; each is on unless
\* the configuration says otherwise.
Features == {"main_loop", "updates_watcher", "time_control"}

\* start() has run: a worker thread exists.
started == tg_pc # "idle" \/ loop_pc["main"] # "idle" \/ upd_pc # "idle"

\* start(), lines 128-147: the thread of every enabled feature begins.
StartWith(enabled) ==
    /\ ~started
    /\ loop_pc' = IF "main_loop" \in enabled
                  THEN [loop_pc EXCEPT !["main"] = "entry"] ELSE loop_pc
    /\ tg_pc' = IF "time_control" \in enabled THEN "check" ELSE tg_pc
    /\ upd_pc' = IF "updates_watcher" \in enabled THEN "entry" ELSE upd_pc
    /\ UNCHANGED <<running_main_loop, running_by_time, main_loop_call_count, hour,
                   flag, tg_checked, engine_vars, dry_run, bot, now, ret, deadline, arg,
                   message, rest_vars, search_updates_call_count>>

\* start() with no toggle switched off: the main_loop, updates_loop and
\* time_loop threads begin.
Start == StartWith(Features)

ceiling_never_exceeded(count) == FALSE

\* Line 235: if self.main_loop_call_count > max_calls
ceiling_exceeded(count) == count > max_call_count

\* loop(), lines 233-240: count the invocation; over the ceiling reset the
\* counter, schedule a Timer for loop() and return. The increment and the test
\* are consecutive statements with no call between them and are taken as one
\* step.
LoopEntry(r) ==
    /\ loop_pc[r] = "entry"
    /\ LET count == main_loop_call_count + 1
       IN  IF ceiling_exceeded(count)
           THEN /\ main_loop_call_count' = 0
                /\ IF r = "tg"
                   THEN /\ loop_pc["timer"] \in {"idle", "done"}
                        /\ loop_pc' = [loop_pc EXCEPT !["tg"] = "done",
                                                      !["timer"] = "timer"]
                   ELSE loop_pc' = [loop_pc EXCEPT ![r] = "timer"]
           ELSE /\ main_loop_call_count' = count
                /\ loop_pc' = [loop_pc EXCEPT ![r] = "check"]
    /\ UNCHANGED <<running_main_loop, running_by_time, hour, tg_pc, flag, tg_checked,
                   engine_vars, dry_run, bot, now, ret, deadline, arg,
                   message, rest_vars, watch_vars>>

\* The Timer fires and calls loop().
LoopTimer(r) ==
    /\ loop_pc[r] = "timer"
    /\ loop_pc' = [loop_pc EXCEPT ![r] = "entry"]
    /\ UNCHANGED <<running_main_loop, running_by_time, main_loop_call_count, hour,
                   tg_pc, flag, tg_checked, engine_vars, dry_run, bot, now, ret,
                   deadline, arg,
                   message, rest_vars, watch_vars>>

may_poll_either == running_main_loop \/ running_by_time

\* Line 244: the loop goes on only while both flags are set.
may_poll == running_main_loop /\ running_by_time

LoopCheck(r) ==
    /\ loop_pc[r] = "check"
    /\ loop_pc' = [loop_pc EXCEPT ![r] = IF may_poll THEN "batch" ELSE "done"]
    /\ UNCHANGED <<running_main_loop, running_by_time, main_loop_call_count, hour,
                   tg_pc, flag, tg_checked, engine_vars, dry_run, bot, now, ret,
                   deadline, arg,
                   message, rest_vars, watch_vars>>

\* Lines 253-257, the except clause of loop(): a Timer for loop() if
\* running_main_loop is set, and the invocation returns.
loop_except(r) ==
    IF r = "tg"
    THEN [loop_pc EXCEPT !["tg"] = "done",
                         !["timer"] = IF running_main_loop THEN "timer" ELSE @]
    ELSE [loop_pc EXCEPT ![r] = IF running_main_loop THEN "timer" ELSE "done"]

\* Line 248: one batch, whose search may raise; the batch function catches
\* what is raised inside it, so the loop goes on to its sleep. An exception
\* leaving the batch would reach the except clause of loop().
LoopBatchOf(r, batches) ==
    /\ loop_pc[r] = "batch"
    /\ \E batch \in batches : \E search_fails \in BOOLEAN :
          LET b == _process_new_issues_batch(Self, batch, search_fails)
          IN  /\ search_fails => batch = <<>>
              /\ Len(picks) + Len(batch) <= MaxPicks
              /\ Commit(b)
              /\ IF b.raised
                 THEN /\ (r = "tg" /\ running_main_loop)
                            => loop_pc["timer"] \in {"idle", "done"}
                      /\ loop_pc' = loop_except(r)
                 ELSE loop_pc' = [loop_pc EXCEPT ![r] = "sleep"]
    /\ UNCHANGED <<running_main_loop, running_by_time, main_loop_call_count, hour,
                   tg_pc, flag, tg_checked, dry_run, bot, now, ret, deadline, arg,
                   message, rest_vars, watch_vars>>

\* The batch of the worker threads of SpecRun: the search returns no ticket.
LoopBatch(r) == LoopBatchOf(r, RunBatches)

\* Line 251: time.sleep(interval) is over.
LoopSleep(r) ==
    /\ loop_pc[r] = "sleep"
    /\ loop_pc' = [loop_pc EXCEPT ![r] = "check"]
    /\ UNCHANGED <<running_main_loop, running_by_time, main_loop_call_count, hour,
                   tg_pc, flag, tg_checked, engine_vars, dry_run, bot, now, ret,
                   deadline, arg,
                   message, rest_vars, watch_vars>>

\* Lines 253-257: a statement of the loop body outside the batch (reading the
\* interval, time.sleep) raises. loop() logs it, schedules a Timer for itself
\* if running_main_loop is set, and returns.
LoopRaise(r) ==
    /\ loop_pc[r] = "sleep"
    /\ (r = "tg" /\ running_main_loop) => loop_pc["timer"] \in {"idle", "done"}
    /\ loop_pc' = loop_except(r)
    /\ UNCHANGED <<running_main_loop, running_by_time, main_loop_call_count, hour,
                   tg_pc, flag, tg_checked, engine_vars, dry_run, bot, now, ret,
                   deadline, arg, message, rest_vars, watch_vars>>

LoopStep(r) ==
    \/ LoopEntry(r) \/ LoopTimer(r) \/ LoopCheck(r) \/ LoopBatch(r) \/ LoopSleep(r)
    \/ LoopRaise(r)

wake_due_every_check == hour = wake_up_hour

\* Line 549: the wake hour, and the one-shot has not fired since the last
\* sleep hour.
wake_due == hour = wake_up_hour /\ ~flag

\* check_time(), lines 540-551: read the hour; in a sleep hour clear the
\* one-shot and the time-gate flag; in the wake hour, once, set the one-shot
\* and clear the time-gate flag before the settle delay.
TgCheck ==
    /\ tg_pc = "check"
    /\ tg_checked' = TRUE
    /\ IF hour \in sleep_hours
       THEN /\ flag' = FALSE
            /\ running_by_time' = FALSE
            /\ tg_pc' = "sleep"
       ELSE IF wake_due
            THEN /\ flag' = TRUE
                 /\ running_by_time' = FALSE
                 /\ tg_pc' = "settle"
            ELSE /\ tg_pc' = "sleep"
                 /\ UNCHANGED <<flag, running_by_time>>
    /\ UNCHANGED <<running_main_loop, main_loop_call_count, hour, loop_pc,
                   engine_vars, dry_run, bot, now, ret, deadline, arg,
                   message, rest_vars, watch_vars>>

\* A wake sequence that switched processing on again as well.
TgSettleBothFlags ==
    /\ tg_pc = "settle"
    /\ running_by_time' = TRUE
    /\ running_main_loop' = TRUE
    /\ tg_pc' = "call_loop"
    /\ UNCHANGED <<main_loop_call_count, hour, loop_pc, flag,
                   tg_checked, engine_vars, dry_run, bot, now, ret, deadline, arg,
                   message, rest_vars, watch_vars>>

\* Lines 553-554: the settle delay is over, the time-gate flag is set again.
TgSettle ==
    /\ tg_pc = "settle"
    /\ running_by_time' = TRUE
    /\ tg_pc' = "call_loop"
    /\ UNCHANGED <<running_main_loop, main_loop_call_count, hour, loop_pc, flag,
                   tg_checked, engine_vars, dry_run, bot, now, ret, deadline, arg,
                   message, rest_vars, watch_vars>>

\* A wake sequence that started the watcher again before calling the poller.
TgCallLoopAndWatcher ==
    /\ tg_pc = "call_loop"
    /\ tg_pc' = "in_loop"
    /\ loop_pc' = [loop_pc EXCEPT !["tg"] = "entry"]
    /\ upd_pc' = IF upd_pc = "done" THEN "entry" ELSE upd_pc
    /\ UNCHANGED <<running_main_loop, running_by_time, main_loop_call_count, hour,
                   flag, tg_checked, engine_vars, dry_run, bot, now, ret, deadline, arg,
                   message, rest_vars, search_updates_call_count>>

tg_skip_loop == [pc |-> "sleep", loop |-> loop_pc]

\* Line 556: check_time() calls self.loop() in its own thread.
tg_call_loop == [pc |-> "in_loop", loop |-> [loop_pc EXCEPT !["tg"] = "entry"]]

TgCallLoop ==
    /\ tg_pc = "call_loop"
    /\ tg_pc' = tg_call_loop.pc
    /\ loop_pc' = tg_call_loop.loop
    /\ UNCHANGED <<running_main_loop, running_by_time, main_loop_call_count, hour,
                   flag, tg_checked, engine_vars, dry_run, bot, now, ret, deadline, arg,
                   message, rest_vars, watch_vars>>

\* self.loop() has returned to check_time(), which goes on to line 558.
TgReturn ==
    /\ tg_pc = "in_loop"
    /\ loop_pc["tg"] = "done"
    /\ tg_pc' = "sleep"
    /\ loop_pc' = [loop_pc EXCEPT !["tg"] = "idle"]
    /\ UNCHANGED <<running_main_loop, running_by_time, main_loop_call_count, hour,
                   flag, tg_checked, engine_vars, dry_run, bot, now, ret, deadline, arg,
                   message, rest_vars, watch_vars>>

\* Line 559: time.sleep(interval) is over.
TgSleep ==
    /\ tg_pc = "sleep"
    /\ tg_pc' = "check"
    /\ UNCHANGED <<running_main_loop, running_by_time, main_loop_call_count, hour,
                   loop_pc, flag, tg_checked, engine_vars, dry_run, bot, now, ret,
                   deadline, arg,
                   message, rest_vars, watch_vars>>

TgStep == TgCheck \/ TgSettle \/ TgCallLoop \/ TgReturn \/ TgSleep

\* The wall clock reaches the next hour. The check interval is shorter than an
\* hour, so unless check_time() is inside loop() it has read the clock at
\* least once during the hour that ends.
HourTick ==
    /\ tg_pc # "idle"
    /\ tg_pc # "in_loop" => tg_checked
    /\ hour' = (hour + 1) % 24
    /\ tg_checked' = FALSE
    /\ UNCHANGED <<running_main_loop, running_by_time, main_loop_call_count, loop_pc,
                   tg_pc, flag, engine_vars, dry_run, bot, now, ret, deadline, arg,
                   message, rest_vars, watch_vars>>

(***************************************************************************)
(* Command Surface: the Telegram handlers                                  *)
(*                                                                         *)
(* A handler is an operator from the sender, the text and whether          *)
(* bot.send_message raises for the reply, to the flag after the call, the  *)
(* external calls made and the lines logged. A reply call has op "reply"   *)
(* and the kind of reply as its key.                                       *)
(***************************************************************************)

\* Texts a user sends: the two commands, one menu button and anything else.
Texts == {"/start", "-", "Issues on me", "hello"}

Messages == [chat_id : ChatIds, text : Texts, sent : BOOLEAN]

is_authorized_any(chat_id) == TRUE

is_authorized(chat_id) == chat_id = my_id

\* What a handler leaves behind.
Handled(value, cs, lg) == [running_main_loop |-> value, calls |-> cs, log |-> lg]

Reply(kind, chat_id) == Call("reply", kind, chat_id, "-")

\* _toggle_main_loop, called by a handler whose result so far is h.
_toggle_main_loop(h, value) ==
    [h EXCEPT !.running_main_loop = value,
              !.log = Append(h.log, [key |-> "-", msg |-> "set running_main_loop"])]

\* handle_start: /start or /help. A stranger gets "Access denied." only. The
\* owner gets the menu; if that reply raises the handler ends there; otherwise
\* a cleared running_main_loop is set again. loop() is not called.
handle_start(chat_id, reply_fails) ==
    IF ~is_authorized(chat_id)
    THEN Handled(running_main_loop, <<Reply("denied", chat_id)>>,
                 <<[key |-> "-", msg |-> "unauthorized"]>>)
    ELSE LET h == Handled(running_main_loop, <<Reply("help", chat_id)>>, <<>>)
         IN  IF reply_fails \/ running_main_loop THEN h
             ELSE _toggle_main_loop(h, TRUE)

\* _stop_bot: the reply is sent first; if it raises the flag is not touched.
_stop_bot(chat_id, reply_fails) ==
    LET h == Handled(running_main_loop, <<Reply("stopped", chat_id)>>, <<>>)
    IN  IF reply_fails THEN h ELSE _toggle_main_loop(h, FALSE)

\* _show_issues_on_me: one tracker query, then the answer; every failure is
\* caught.
_show_issues_on_me(chat_id) ==
    Handled(running_main_loop,
            <<Call("search", "issues_on_me", 0, "-"), Reply("issues", chat_id)>>, <<>>)

\* handle_message: nothing at all for a stranger; the button pressed decides
\* for the owner.
handle_message(chat_id, text, reply_fails) ==
    IF ~is_authorized(chat_id) THEN Handled(running_main_loop, <<>>, <<>>)
    ELSE IF text = "Issues on me" THEN _show_issues_on_me(chat_id)
    ELSE IF text = "-" THEN _stop_bot(chat_id, reply_fails)
    ELSE Handled(running_main_loop, <<Reply("unknown", chat_id)>>, <<>>)

\* The handler TeleBot calls for a message.
handle(m) ==
    IF m.text = "/start" THEN handle_start(m.chat_id, ~m.sent)
    ELSE handle_message(m.chat_id, m.text, ~m.sent)

\* The messages that reach the threads of SpecRun: the two commands, answered.
RunMessages == {m \in Messages : m.text \in {"/start", "-"} /\ m.sent}

CommandRestarting(m) ==
    /\ started
    /\ running_main_loop' = handle(m).running_main_loop
    /\ loop_pc' = [r \in Runners |->
                      IF handle(m).running_main_loop /\ loop_pc[r] = "done"
                      THEN "entry" ELSE loop_pc[r]]
    /\ UNCHANGED <<running_by_time, main_loop_call_count, hour, tg_pc, flag,
                   tg_checked, engine_vars, dry_run, bot, now, ret, deadline, arg,
                   message, rest_vars, watch_vars>>

\* A command that set both flags.
CommandBothFlags(m) ==
    /\ started
    /\ running_main_loop' = handle(m).running_main_loop
    /\ running_by_time' = handle(m).running_main_loop
    /\ UNCHANGED <<main_loop_call_count, hour, loop_pc, tg_pc, flag,
                   tg_checked, engine_vars, dry_run, bot, now, ret, deadline, arg,
                   message, rest_vars, watch_vars>>

\* A message arrives while the threads run; what the handler answers is not
\* kept.
Command(m) ==
    /\ started
    /\ running_main_loop' = handle(m).running_main_loop
    /\ UNCHANGED <<running_by_time, main_loop_call_count, hour, loop_pc, tg_pc, flag,
                   tg_checked, engine_vars, dry_run, bot, now, ret, deadline, arg,
                   message, rest_vars, watch_vars>>

\* A message arrives; the message, the calls and the log lines are kept.
HandleMessage(m) ==
    /\ started
    /\ message' = m
    /\ running_main_loop' = handle(m).running_main_loop
    /\ calls' = handle(m).calls
    /\ log' = handle(m).log
    /\ UNCHANGED <<running_by_time, main_loop_call_count, hour, loop_pc, tg_pc, flag,
                   tg_checked, to_assign, processed_issues_cache, cache_expiry, picks,
                   assigned_at, dry_run, bot, now, ret, deadline, arg, watch_vars,
                   rest_vars>>

NextRun ==
    \/ Start
    \/ \E r \in Runners : LoopEntry(r)
    \/ \E r \in Runners : LoopTimer(r)
    \/ \E r \in Runners : LoopCheck(r)
    \/ \E r \in Runners : LoopBatch(r)
    \/ \E r \in Runners : LoopSleep(r)
    \/ \E r \in Runners : LoopRaise(r)
    \/ TgCheck
    \/ TgSettle
    \/ TgCallLoop
    \/ TgReturn
    \/ TgSleep
    \/ HourTick
    \/ \E m \in RunMessages : Command(m)

\* Every thread that can take a step eventually takes one (the threads are
\* scheduled by the operating system, a pending Timer fires).
RunFairness ==
    /\ WF_vars(TgStep)
    /\ \A r \in Runners : WF_vars(LoopStep(r))

SpecRun == InitRun /\ [][NextRun]_vars /\ RunFairness

(***************************************************************************)
(* SpecWatch: search_updates_timeout() of the updates_loop thread and of   *)
(* the Timers it schedules, beside the commands                            *)
(*                                                                         *)
(* upd_pc: "idle" (not started), "entry", "sleep" (line 398), "batch"      *)
(* (line 403), "timer" (a Timer is pending), "done" (returned).            *)
(***************************************************************************)

watch_ceiling_exceeded_late(count) == count > max_call_count + 2

\* Line 390: if self.search_updates_call_count > max_count
watch_ceiling_exceeded(count) == count > max_call_count

\* Lines 387-392: count the invocation; over the ceiling log it and return.
\* Nothing is reset and nothing is scheduled.
WatchEntry ==
    /\ upd_pc = "entry"
    /\ LET count == search_updates_call_count + 1
       IN  /\ search_updates_call_count' = count
           /\ IF watch_ceiling_exceeded(count)
              THEN /\ upd_pc' = "done"
                   /\ calls' = <<>>
                   /\ log' = <<[key |-> "-", msg |-> "watcher stop"]>>
              ELSE /\ upd_pc' = "sleep"
                   /\ UNCHANGED <<calls, log>>
    /\ UNCHANGED <<running_main_loop, running_by_time, main_loop_call_count, hour,
                   loop_pc, tg_pc, flag, tg_checked, to_assign, processed_issues_cache,
                   cache_expiry, picks, assigned_at, dry_run, bot, now, ret, deadline,
                   arg, message, rest_vars>>

\* Lines 398-401: the sleep is over; the loop goes on only while both flags
\* are set, otherwise the function returns.
WatchSleep ==
    /\ upd_pc = "sleep"
    /\ upd_pc' = IF may_poll THEN "batch" ELSE "done"
    /\ UNCHANGED <<running_main_loop, running_by_time, main_loop_call_count, hour,
                   loop_pc, tg_pc, flag, tg_checked, engine_vars, dry_run, bot, now,
                   ret, deadline, arg, message, rest_vars, search_updates_call_count>>

\* Line 403: one batch; nothing it does reaches the except clause.
WatchBatch ==
    /\ upd_pc = "batch"
    /\ \E batch \in RunBatches : \E search_fails \in BOOLEAN :
          Commit(_process_updates_batch(Self, batch, search_fails))
    /\ upd_pc' = "sleep"
    /\ UNCHANGED <<running_main_loop, running_by_time, main_loop_call_count, hour,
                   loop_pc, tg_pc, flag, tg_checked, dry_run, bot, now, ret, deadline,
                   arg, message, rest_vars, search_updates_call_count>>

\* Lines 405-407: a statement of the loop body outside the batch (reading the
\* interval, time.sleep) raises; the failure is logged and a Timer for
\* search_updates_timeout is started, whatever the flags.
WatchRaise ==
    /\ upd_pc = "sleep"
    /\ upd_pc' = "timer"
    /\ calls' = <<>>
    /\ log' = <<[key |-> "-", msg |-> "watcher failure"]>>
    /\ UNCHANGED <<running_main_loop, running_by_time, main_loop_call_count, hour,
                   loop_pc, tg_pc, flag, tg_checked, to_assign, processed_issues_cache,
                   cache_expiry, picks, assigned_at, dry_run, bot, now, ret, deadline,
                   arg, message, rest_vars, search_updates_call_count>>

\* The Timer fires and calls search_updates_timeout().
WatchTimer ==
    /\ upd_pc = "timer"
    /\ upd_pc' = "entry"
    /\ UNCHANGED <<running_main_loop, running_by_time, main_loop_call_count, hour,
                   loop_pc, tg_pc, flag, tg_checked, engine_vars, dry_run, bot, now,
                   ret, deadline, arg, message, rest_vars, search_updates_call_count>>

WatchStep == WatchEntry \/ WatchSleep \/ WatchBatch \/ WatchRaise \/ WatchTimer

InitWatch ==
    /\ InitFields
    /\ rotation = assignees
    /\ dry_run \in BOOLEAN
    /\ bot \in BOOLEAN
    /\ hour = 12

NextWatch ==
    \/ Start
    \/ WatchEntry
    \/ WatchSleep
    \/ WatchBatch
    \/ WatchRaise
    \/ WatchTimer
    \/ \E m \in RunMessages : Command(m)

SpecWatch == InitWatch /\ [][NextWatch]_vars /\ WF_vars(WatchStep)

(***************************************************************************)
(* SpecStop: the three worker loops and stop(); no command arrives, so     *)
(* running_main_loop is false exactly when stop() has been called          *)
(***************************************************************************)

\* stop(), lines 154-156: both flags are cleared; no thread is joined and no
\* Timer is cancelled.
Stop ==
    /\ started
    /\ running_main_loop' = FALSE
    /\ running_by_time' = FALSE
    /\ UNCHANGED <<main_loop_call_count, hour, loop_pc, tg_pc, flag, tg_checked,
                   engine_vars, dry_run, bot, now, ret, deadline, arg, message, rest_vars,
                   watch_vars>>

StopRunners == {"main", "tg"}

InitStop ==
    /\ InitFields
    /\ rotation = assignees
    /\ dry_run = FALSE
    /\ bot = TRUE
    /\ hour \in {10, 12}

NextStop ==
    \/ Start
    \/ Stop
    \/ \E r \in StopRunners : LoopEntry(r)
    \/ \E r \in StopRunners : LoopCheck(r)
    \/ \E r \in StopRunners : LoopBatch(r)
    \/ \E r \in StopRunners : LoopSleep(r)
    \/ WatchEntry
    \/ WatchSleep
    \/ WatchBatch
    \/ TgCheck
    \/ TgSettle
    \/ TgCallLoop
    \/ TgReturn
    \/ TgSleep
    \/ HourTick

SpecStop ==
    /\ InitStop /\ [][NextStop]_vars
    /\ WF_vars(TgStep) /\ WF_vars(WatchStep)
    /\ \A r \in StopRunners : WF_vars(LoopStep(r))

(***************************************************************************)
(* SpecOnce: cli.main() in once mode, one process from start to exit       *)
(***************************************************************************)

\* process_once, lines 165-173: the two batches, each under its own
\* try/except; nothing leaves the function.
process_once(s, new_batch, new_fails, upd_batch, upd_fails) ==
    LET a == _process_new_issues_batch(s, new_batch, new_fails)
        a1 == IF a.raised
              THEN [Logged(a, "-", "error processing new issues") EXCEPT !.raised = FALSE]
              ELSE a
        b == _process_updates_batch(a1, upd_batch, upd_fails)
    IN  IF b.raised
        THEN [Logged(b, "-", "error processing updates") EXCEPT !.raised = FALSE]
        ELSE b

\* cli.main, lines 196-202 and 217-219: 0 after process_once has returned, 1
\* when an exception reaches main.
once_exit_code(r) == IF r.raised THEN 1 ELSE 0

\* What the updates search returns in once mode.
OnceUpdates == {batch \in Batches : Len(batch) <= 1}

MainOnce ==
    /\ exit_code = NoExit
    /\ \E new_batch \in Batches : \E upd_batch \in OnceUpdates :
       \E new_fails \in BOOLEAN : \E upd_fails \in BOOLEAN :
          LET r == process_once(Self, new_batch, new_fails, upd_batch, upd_fails)
          IN  /\ new_fails => new_batch = <<>>
              /\ upd_fails => upd_batch = <<>>
              /\ Commit(r)
              /\ exit_code' = once_exit_code(r)
    /\ UNCHANGED <<running_main_loop, running_by_time, main_loop_call_count, hour,
                   loop_pc, tg_pc, flag, tg_checked, dry_run, bot, now, ret, deadline,
                   arg, message, watch_vars, rotation, issues_raw, lists,
                   new_issues, proc>>

InitOnce ==
    /\ InitFields
    /\ rotation = assignees
    /\ dry_run \in BOOLEAN
    /\ bot \in BOOLEAN
    /\ hour = 12

NextOnce == MainOnce

SpecOnce == InitOnce /\ [][NextOnce]_vars

(***************************************************************************)
(* SpecEmpty: the program started with a configured or an empty rotation   *)
(***************************************************************************)

\* Config.get_assignees: the pairs of assignee.rotation, [] when the key is
\* missing or the list is empty.
get_assignees == {<<>>, assignees}

InitEmpty ==
    /\ InitFields
    /\ rotation \in get_assignees
    /\ dry_run = FALSE
    /\ bot = TRUE
    /\ hour = 12

NextEmpty ==
    \/ Start
    \/ LoopEntry("main")
    \/ LoopCheck("main")
    \/ LoopBatch("main")
    \/ LoopSleep("main")
    \/ \E batch \in Batches : NewIssuesBatch(batch, FALSE)

SpecEmpty == InitEmpty /\ [][NextEmpty]_vars

(***************************************************************************)
(* SpecList: _get_list applied to what a search returned                   *)
(***************************************************************************)

\* Issues one search returns for the Telegram commands.
MaxList == 3

\* Tickets that differ in key, creator and title, and a record without the
\* fields.
ListTickets ==
    LET T(k, c, sm, w) ==
            [key |-> k, creator |-> c, summary |-> sm, comments |-> <<>>,
             assignee |-> NoAssignee, wellformed |-> w]
    IN  { T("K0", "user", <<"r", "p">>, TRUE),
          T("K1", "vivashov", <<"r", "p">>, TRUE),
          T("K2", "user", <<"x", "P", "R">>, TRUE),
          T("K1", "user", <<"x", "P", "R">>, TRUE),
          T("K2", "user", <<>>, FALSE) }

ListInputs == UNION {[1..n -> ListTickets] : n \in 0..MaxList}

RECURSIVE get_list_reversed_each(_, _)
get_list_reversed_each(acc, rest) ==
    IF rest = <<>> \/ acc.raised THEN acc
    ELSE LET issue == Head(rest)
         IN  IF ~issue.wellformed
             THEN get_list_reversed_each([acc EXCEPT !.raised = TRUE], Tail(rest))
             ELSE get_list_reversed_each(
                      [acc EXCEPT !.creators = <<issue.creator>> \o @,
                                  !.names = <<issue.summary>> \o @,
                                  !.issues = <<issue.key>> \o @],
                      Tail(rest))

_get_list_reversed(raw) == get_list_reversed_each(NoLists, raw)

\* Lines 455-459, the for loop: one append to each list per issue; a record
\* without the fields raises KeyError and ends the call.
RECURSIVE get_list_each(_, _)
get_list_each(acc, rest) ==
    IF rest = <<>> \/ acc.raised THEN acc
    ELSE LET issue == Head(rest)
         IN  IF ~issue.wellformed
             THEN get_list_each([acc EXCEPT !.raised = TRUE], Tail(rest))
             ELSE get_list_each(
                      [acc EXCEPT !.creators = Append(@, issue.creator),
                                  !.names = Append(@, issue.summary),
                                  !.issues = Append(@, issue.key)],
                      Tail(rest))

\* _get_list: the three lists start empty and are returned after the loop.
_get_list(raw) == get_list_each(NoLists, raw)

GetList(raw) ==
    /\ issues_raw' = raw
    /\ lists' = _get_list(raw)
    /\ UNCHANGED <<engine_vars, dry_run, bot, now, ret, deadline, arg,
                   running_main_loop, running_by_time, main_loop_call_count, hour,
                   loop_pc, tg_pc, flag, tg_checked, message, watch_vars, exit_code,
                   rotation, new_issues, proc>>

InitList ==
    /\ InitFields
    /\ rotation = assignees
    /\ dry_run = FALSE
    /\ bot = TRUE
    /\ hour = 12

NextList == \E raw \in ListInputs : GetList(raw)

SpecList == InitList /\ [][NextList]_vars

(***************************************************************************)
(* SpecRace: two invocations of loop() are alive at once (the main_loop    *)
(* thread, the call made by check_time(), a Timer thread) and each runs    *)
(* _process_new_issue statement by statement; nothing in the class is      *)
(* locked. calls and picks accumulate over the run, log is the step's.     *)
(*                                                                         *)
(* proc[w].pc: "idle", "transition" (line 345), "pick" (line 352),         *)
(* "rotate_read" and "rotate_write" (line 353), "send" (line 358),         *)
(* "assign" (line 359), "cache" (line 329), "done".                        *)
(***************************************************************************)

\* The fields as one invocation finds them, with the calls made so far.
SelfSoFar == [Self EXCEPT !.calls = calls]

\* Unassigned tickets that pass every rule.
RaceTickets ==
    {t \in WellFormed : /\ t.key \in {"K1", "K2"}
                        /\ t.assignee = NoAssignee
                        /\ ~comment_matched(t)
                        /\ ~name_or_creator_matched(t)
                        /\ t.comments = << <<"V", "i">> >>}

RaceFrame ==
    UNCHANGED <<dry_run, bot, now, ret, deadline, arg, running_main_loop,
                running_by_time, main_loop_call_count, hour, loop_pc, tg_pc, flag,
                tg_checked, message, watch_vars, exit_code, rotation, issues_raw,
                lists, new_issues>>

\* Lines 290-300: the invocation is handed a ticket of its batch; a ticket in
\* the cache ends the call, any other goes on to _assign_issue.
RaceEnter(w, t) ==
    /\ proc[w].pc \in {"idle", "done"}
    /\ Len(picks) + Cardinality({v \in Workers : proc[v].pc \in {"transition", "pick"}})
          < MaxPicks
    /\ LET c == _is_cached(SelfSoFar, t.key)
       IN  IF c.ret
           THEN /\ Commit(Logged(c.s, t.key, "in cache"))
                /\ proc' = [proc EXCEPT ![w] = [NotCalled EXCEPT !.pc = "done", !.t = t]]
           ELSE /\ Commit(c.s)
                /\ proc' = [proc EXCEPT ![w] = [NotCalled EXCEPT !.pc = "transition",
                                                                 !.t = t]]
    /\ RaceFrame

\* Line 345: jira.transition_issue
RaceTransition(w) ==
    /\ proc[w].pc = "transition"
    /\ Commit(Called(SelfSoFar, Call("transition", proc[w].t.key, 0, transition_id)))
    /\ proc' = [proc EXCEPT ![w].pc = "pick"]
    /\ RaceFrame

\* Line 352: assignee_username, chat_id = self.assignees[self.to_assign]
RacePick(w) ==
    /\ proc[w].pc = "pick"
    /\ Commit([SelfSoFar EXCEPT !.picks = Append(picks, pick(to_assign))])
    /\ proc' = [proc EXCEPT ![w].pc = "rotate_read", ![w].pair = pick(to_assign)]
    /\ RaceFrame

\* Line 353, right-hand side: self.to_assign is read.
RaceRotateRead(w) ==
    /\ proc[w].pc = "rotate_read"
    /\ Commit(SelfSoFar)
    /\ proc' = [proc EXCEPT ![w].pc = "rotate_write", ![w].idx = to_assign]
    /\ RaceFrame

\* Line 353, assignment: self.to_assign is written.
RaceRotateWrite(w) ==
    /\ proc[w].pc = "rotate_write"
    /\ Commit([SelfSoFar EXCEPT !.to_assign = rotate(proc[w].idx)])
    /\ proc' = [proc EXCEPT ![w].pc = "send"]
    /\ RaceFrame

\* Line 358: the notification.
RaceSend(w) ==
    /\ proc[w].pc = "send"
    /\ Commit(_safe_send_message(SelfSoFar, proc[w].pair[2], proc[w].t, {}))
    /\ proc' = [proc EXCEPT ![w].pc = "assign"]
    /\ RaceFrame

\* Line 359: the reassignment.
RaceAssign(w) ==
    /\ proc[w].pc = "assign"
    /\ Commit(_reassign_if_needed(SelfSoFar, proc[w].t, proc[w].pair[1], {}))
    /\ proc' = [proc EXCEPT ![w].pc = "cache"]
    /\ RaceFrame

\* Line 329: the ticket enters the cache.
RaceCache(w) ==
    /\ proc[w].pc = "cache"
    /\ Commit(cache_after_assign(SelfSoFar, proc[w].t))
    /\ proc' = [proc EXCEPT ![w].pc = "done"]
    /\ RaceFrame

InitRace ==
    /\ InitFields
    /\ rotation = assignees
    /\ dry_run = FALSE
    /\ bot = TRUE
    /\ hour = 12

NextRace ==
    \/ \E w \in Workers : \E t \in RaceTickets : RaceEnter(w, t)
    \/ \E w \in Workers : RaceTransition(w)
    \/ \E w \in Workers : RacePick(w)
    \/ \E w \in Workers : RaceRotateRead(w)
    \/ \E w \in Workers : RaceRotateWrite(w)
    \/ \E w \in Workers : RaceSend(w)
    \/ \E w \in Workers : RaceAssign(w)
    \/ \E w \in Workers : RaceCache(w)

SpecRace == InitRace /\ [][NextRace]_vars

(***************************************************************************)
(* SpecCmd: the handlers beside the poller of the main_loop thread, with   *)
(* the latest message and the handler's answers kept                       *)
(***************************************************************************)

InitCmd ==
    /\ InitFields
    /\ rotation = assignees
    /\ dry_run = FALSE
    /\ bot = TRUE
    /\ hour = 12

NextCmd ==
    \/ Start
    \/ LoopEntry("main")
    \/ LoopTimer("main")
    \/ LoopCheck("main")
    \/ LoopBatch("main")
    \/ LoopSleep("main")
    \/ LoopRaise("main")
    \/ \E m \in Messages : HandleMessage(m)

SpecCmd == InitCmd /\ [][NextCmd]_vars

(***************************************************************************)
(* Observers used by the properties                                        *)
(***************************************************************************)

\* isCached(k) would answer true in this state.
Cached(k) ==
    /\ k \in processed_issues_cache
    /\ k \in DOMAIN cache_expiry
    /\ now < cache_expiry[k]

CountCalls(cs, op, k) == Cardinality({i \in 1..Len(cs) : cs[i].op = op /\ cs[i].key = k})

\* How often the latest step entered _assign_issue for k: each entry writes
\* exactly one of these three lines first.
AssignEntries(lg, k) ==
    Cardinality({i \in 1..Len(lg) :
                    /\ lg[i].key = k
                    /\ lg[i].msg \in {"transitioned", "would transition", "error assigning"}})

Mentions(lg, k) == \E i \in 1..Len(lg) : lg[i].key = k

Says(lg, k, msg) == \E i \in 1..Len(lg) : lg[i] = [key |-> k, msg |-> msg]

\* kw occurs in txt at some offset, character by character.
OccursIn(kw, txt) ==
    \E off \in 0..Len(txt) :
        /\ off + Len(kw) <= Len(txt)
        /\ \A j \in 1..Len(kw) : txt[off + j] = kw[j]

\* The comment texts one after another, with nothing between them.
CommentText(t) ==
    LET n == Len(t.comments)
        Upto[i \in 0..n] == IF i = 0 THEN <<>> ELSE Upto[i - 1] \o t.comments[i]
    IN  Upto[n]

KeywordInComments(t) == \E kw \in skip_comment_keywords : OccursIn(kw, CommentText(t))

KeywordInTitle(t) ==
    \E kw \in skip_name_keywords :
        OccursIn(kw, [i \in 1..Len(t.summary) |-> LowerChar(t.summary[i])])

\* Well-formed tickets outside the skip set, by the rule the spec puts them under.
CommentKeywordTickets ==
    {t \in WellFormed : t.key \notin to_skip /\ KeywordInComments(t)}

TitleOrCreatorTickets ==
    {t \in WellFormed :
        /\ t.key \notin to_skip
        /\ ~KeywordInComments(t)
        /\ KeywordInTitle(t) \/ t.creator \in skip_creators}

\* What _process_new_issue leaves behind for a rule-filtered ticket of key k.
FilteredWithLongTTL(k) ==
    /\ calls' = <<>>
    /\ picks' = picks
    /\ to_assign' = to_assign
    /\ assigned_at' = assigned_at
    /\ AssignEntries(log', k) = 0
    /\ k \in processed_issues_cache'
    /\ k \in DOMAIN cache_expiry'
    /\ cache_expiry'[k] = now + LongTTL
    /\ now' < cache_expiry'[k]

(***************************************************************************)
(* Properties                                                              *)
(***************************************************************************)

\* C1: Idempotence of dedup. A ticket that entered the assignment path less
\* than the short TTL ago is not processed again: a further _process_new_issue
\* of it only logs "in cache" and changes nothing. One call enters the
\* assignment path at most once and issues at most one transition, one pick,
\* one notification and one assign (exactly one transition in a real run, one
\* notification when a bot is configured and the transition succeeded).
DedupIdempotent ==
    [][\A k \in Keys :
          LET recent == assigned_at[k] # NoTime /\ now' < assigned_at[k] + ShortTTL
              entered == AssignEntries(log', k)
          IN  /\ entered <= 1
              /\ (recent /\ Mentions(log', k)) =>
                    /\ log' = <<[key |-> k, msg |-> "in cache"]>>
                    /\ calls' = <<>>
                    /\ UNCHANGED <<to_assign, processed_issues_cache, cache_expiry,
                                   picks, assigned_at>>
              /\ (entered = 1) =>
                    /\ ~recent
                    /\ CountCalls(calls', "transition", k) = (IF dry_run THEN 0 ELSE 1)
                    /\ Len(picks') <= Len(picks) + 1
                    /\ CountCalls(calls', "send", k) <= 1
                    /\ CountCalls(calls', "assign", k) <= 1
                    /\ (~dry_run /\ bot /\ Says(log', k, "assigning"))
                          => CountCalls(calls', "send", k) = 1
              /\ (entered = 0) => CountCalls(calls', "transition", k) = 0
      ]_vars

\* C1 witness: K1 was assigned 299 s ago, was processed again and only "in cache"
\* was logged; the single pick of the first call is still the only one.
DedupIdempotentWitness ==
    /\ ~dry_run /\ bot
    /\ assigned_at["K1"] # NoTime
    /\ now = assigned_at["K1"] + 299
    /\ log = <<[key |-> "K1", msg |-> "in cache"]>>
    /\ calls = <<>>
    /\ Len(picks) = 1

\* C2: Round robin. The i-th pick (i = 0, 1, ...) is rotation[i mod K]; the
\* notification of that assignment goes to the pair's target and its assign
\* call names the pair's operator; after m*K picks every pair was picked m
\* times; rotation [(alice,100),(bob,200)] yields alice, bob, alice.
RoundRobin ==
    /\ [](\A i \in 1..Len(picks) : picks[i] = assignees[((i - 1) % Len(assignees)) + 1])
    /\ [](\A m \in 1..MaxPicks :
            Len(picks) >= m * Len(assignees) =>
                \A j \in 1..Len(assignees) :
                    Cardinality({i \in 1..(m * Len(assignees)) : picks[i] = assignees[j]}) = m)
    /\ []((assignees = << <<"alice", 100>>, <<"bob", 200>> >> /\ Len(picks) >= 3) =>
            SubSeq(picks, 1, 3) = << <<"alice", 100>>, <<"bob", 200>>, <<"alice", 100>> >>)
    /\ [][(picks' # picks) =>
            /\ picks' = Append(picks, assignees[(Len(picks) % Len(assignees)) + 1])
            /\ \A i \in 1..Len(calls') :
                  /\ calls'[i].op = "send" => calls'[i].chat = picks'[Len(picks')][2]
                  /\ calls'[i].op = "assign" => calls'[i].user = picks'[Len(picks')][1]
            /\ (~dry_run /\ bot) => \E i \in 1..Len(calls') : calls'[i].op = "send"
         ]_vars

\* C2 witness: the third assignment of a real run, notified to 100.
RoundRobinWitness ==
    /\ ~dry_run /\ bot
    /\ Len(picks) = 3
    /\ \E i \in 1..Len(calls) : calls[i].op = "send" /\ calls[i].chat = 100
    /\ \E i \in 1..Len(calls) : calls[i].op = "assign" /\ calls[i].user = "alice"

\* C3: a ticket of the permanent skip set never enters the assignment path:
\* no transition, pick, notification or assign is ever made for it, whatever
\* its fields and whatever the cache holds.
SkipListNeverAssigned ==
    /\ \A k \in to_skip :
          /\ assigned_at[k] = NoTime
          /\ \A i \in 1..Len(calls) : calls[i].key # k
          /\ \A i \in 1..Len(log) : log[i].key = k => log[i].msg = "skip list"
    /\ arg.key \in to_skip =>
          /\ calls = <<>>
          /\ log = <<[key |-> arg.key, msg |-> "skip list"]>>

\* C3 witness: a well-formed K0 ticket that passes every other rule was
\* processed while another ticket was cached.
SkipListWitness ==
    /\ arg.key = "K0"
    /\ arg.wellformed
    /\ ~comment_matched(arg) /\ ~name_or_creator_matched(arg)
    /\ processed_issues_cache # {}

\* C4: a ticket outside the skip set and not currently cached whose concatenated
\* comment text contains a comment keyword gets no assignment call and is left
\* in the cache with expiry now + 3600.
CommentKeywordFiltered ==
    [][(arg' \in CommentKeywordTickets /\ ~Cached(arg'.key))
          => FilteredWithLongTTL(arg'.key)]_vars

\* C4 witness: a K1 ticket whose keyword spans two comments was filtered by the
\* comment rule and cached for 3600 s.
CommentKeywordWitness ==
    /\ arg \in CommentKeywordTickets
    /\ log = <<[key |-> "K1", msg |-> "comment matched"]>>
    /\ Cached("K1")
    /\ cache_expiry["K1"] = now + LongTTL

\* C5: a ticket outside the skip set, not currently cached and without a
\* comment-keyword match, whose lower-cased title contains a title keyword or
\* whose creator is in the skip-creator set, gets no assignment call and is
\* left in the cache with the same long TTL.
TitleOrCreatorFiltered ==
    [][(arg' \in TitleOrCreatorTickets /\ ~Cached(arg'.key))
          => FilteredWithLongTTL(arg'.key)]_vars

\* C5 witness: a K1 ticket of an ordinary creator whose title holds the keyword
\* in capitals was filtered by the title rule and cached for 3600 s.
TitleOrCreatorWitness ==
    /\ arg \in TitleOrCreatorTickets
    /\ arg.creator \notin skip_creators
    /\ log = <<[key |-> "K1", msg |-> "name/creator matched"]>>
    /\ Cached("K1")
    /\ cache_expiry["K1"] = now + LongTTL

\* C6: Dedup Cache round trip. After cache(id, ttl), isCached(id) answers true
\* while the clock is before now + ttl (in particular at once) and changes
\* nothing; from the expiry on it answers false and removes the entry; on an
\* absent id it answers false and changes nothing.
CacheRoundTrip ==
    [][\A k \in Keys :
          IsCached(k) =>
            /\ (deadline[k] # NoTime /\ now < deadline[k]) =>
                  /\ ret' = TRUE
                  /\ UNCHANGED <<processed_issues_cache, cache_expiry>>
            /\ (deadline[k] # NoTime /\ now >= deadline[k]) =>
                  /\ ret' = FALSE
                  /\ k \notin processed_issues_cache'
                  /\ k \notin DOMAIN cache_expiry'
            /\ (k \notin processed_issues_cache) =>
                  /\ ret' = FALSE
                  /\ UNCHANGED <<processed_issues_cache, cache_expiry>>
      ]_vars

\* C6 witness: K1 was cached, its TTL passed, and a lookup answered false and
\* evicted it.
CacheRoundTripWitness ==
    /\ deadline["K1"] # NoTime
    /\ now >= deadline["K1"]
    /\ log = <<[key |-> "K1", msg |-> "_is_cached"]>>
    /\ ret = FALSE
    /\ arg = NoArg
    /\ "K1" \notin processed_issues_cache

DryRunNoCalls == dry_run => calls = <<>>

\* C8 witness: a dry run picked an operator for a ticket and logged the
\* would-be notification.
DryRunWitness ==
    /\ dry_run
    /\ Len(picks) >= 1
    /\ \E i \in 1..Len(log) : log[i].msg = "would notify"

\* C9: sleep-hour gating. By the time a sleep hour of a running process ends
\* (no poller being in the middle of a short step), the time-gate flag is
\* false, and a poller whose flag check sees the flag false starts no further
\* batch. The first half fails: after a wake sequence
\* check_time() is inside loop() and no longer reads the clock.
SleepHourGating ==
    /\ [][(/\ tg_pc # "idle"
            /\ \A r \in Runners : loop_pc[r] \in {"idle", "batch", "sleep", "done"}
            /\ hour \in sleep_hours
            /\ hour' # hour)
             => ~running_by_time]_vars
    /\ [][\A r \in Runners :
             (loop_pc[r] = "check" /\ ~running_by_time /\ loop_pc'[r] # loop_pc[r])
                => loop_pc'[r] = "done"]_vars

\* Some poller has reached the fetch of a batch.
AnyBatch == \E r \in Runners : loop_pc[r] = "batch"

\* C10: the wake sequence. A check that reads the wake hour with the one-shot
\* not fired clears the time-gate flag and starts the settle delay; the end of
\* the delay sets the flag and nothing else; the next step invokes loop(), and
\* loop() is invoked from check_time() in no other way; once invoked, a batch
\* is fetched unless one of the two flags has been cleared.
WakeSequence ==
    /\ [][(tg_pc = "check" /\ hour = wake_up_hour /\ hour \notin sleep_hours
              /\ ~flag /\ tg_pc' # tg_pc)
             => (tg_pc' = "settle" /\ flag' /\ ~running_by_time'
                   /\ loop_pc' = loop_pc)]_vars
    /\ [][(tg_pc = "settle" /\ tg_pc' # tg_pc)
             => (tg_pc' = "call_loop" /\ running_by_time' /\ loop_pc' = loop_pc)]_vars
    /\ [][(tg_pc = "call_loop" /\ tg_pc' # tg_pc)
             => (tg_pc' = "in_loop" /\ loop_pc'["tg"] = "entry")]_vars
    /\ [][(loop_pc'["tg"] = "entry" /\ loop_pc["tg"] # "entry")
             => tg_pc = "call_loop"]_vars
    /\ (tg_pc = "call_loop") ~> (AnyBatch \/ ~running_main_loop \/ ~running_by_time)

\* C10 witness: in the wake hour, after the wake sequence, the poller invoked
\* by check_time() is fetching a batch with both flags set.
WakeSequenceWitness ==
    /\ hour = wake_up_hour
    /\ flag
    /\ tg_pc = "in_loop"
    /\ loop_pc["tg"] = "batch"
    /\ running_main_loop /\ running_by_time

\* C11: the wake sequence is one-shot. It starts only in the wake hour with
\* the one-shot not fired, and fires it; the one-shot is reset only by a check
\* that reads a sleep hour; a check outside the sleep hours with the one-shot
\* fired changes no flag, invokes no poller and goes to sleep.
OneShotWake ==
    /\ [][(tg_pc' = "settle" /\ tg_pc # "settle")
             => (~flag /\ flag' /\ hour = wake_up_hour)]_vars
    /\ [][(flag /\ ~flag') => (tg_pc = "check" /\ hour \in sleep_hours)]_vars
    /\ [][(tg_pc = "check" /\ tg_pc' # tg_pc /\ hour \notin sleep_hours /\ flag)
             => (/\ tg_pc' = "sleep"
                 /\ UNCHANGED <<running_main_loop, running_by_time, flag, loop_pc,
                                main_loop_call_count>>)]_vars

\* C11 witness: check_time() woke the poller at the wake hour, came back from
\* loop(), and has just checked the clock in the next hour with the one-shot
\* still fired.
OneShotWakeWitness ==
    /\ hour = wake_up_hour + 1
    /\ tg_checked
    /\ flag
    /\ tg_pc = "sleep"

\* Every invocation of loop() has returned or was never made.
PollerExited == \A r \in Runners : loop_pc[r] \in {"idle", "done"}

\* C12: a /start of the owner that was answered, arriving while
\* running_main_loop is false and the poller has exited, sets the flag and
\* invokes loop(). The handler sets the flag only.
StartRestartsPoller ==
    [][\A m \in Messages :
          (/\ HandleMessage(m)
           /\ m.chat_id = my_id /\ m.text = "/start" /\ m.sent
           /\ ~running_main_loop
           /\ PollerExited)
             => (running_main_loop' /\ \E r \in Runners : loop_pc'[r] = "entry")]_vars

\* C13: a "-" of the owner clears running_main_loop and changes nothing else;
\* a poller whose flag check sees the flag false returns, and a batch is
\* started only from a flag check that saw both flags set. The first part
\* fails when the reply to the command raises.
StopCommand ==
    /\ [][\A m \in Messages :
             (HandleMessage(m) /\ m.chat_id = my_id /\ m.text = "-")
                => (/\ ~running_main_loop'
                    /\ UNCHANGED <<running_by_time, to_assign, processed_issues_cache,
                                   cache_expiry, picks, main_loop_call_count, loop_pc,
                                   tg_pc>>)]_vars
    /\ [][\A r \in Runners :
             (loop_pc[r] = "check" /\ ~running_main_loop /\ loop_pc'[r] # loop_pc[r])
                => loop_pc'[r] = "done"]_vars
    /\ [][\A r \in Runners :
             (loop_pc'[r] = "batch" /\ loop_pc[r] # "batch")
                => (loop_pc[r] = "check" /\ running_main_loop /\ running_by_time)]_vars

\* C14: a message of a stranger changes neither flag, nor the rotation index,
\* nor the cache, nor any thread; no tracker call is made; the only call is an
\* "Access denied." reply to the sender.
UnauthorizedInert ==
    [][\A m \in Messages :
          (HandleMessage(m) /\ m.chat_id # my_id)
             => (/\ UNCHANGED <<running_main_loop, running_by_time, to_assign,
                                processed_issues_cache, cache_expiry, picks,
                                main_loop_call_count, loop_pc, tg_pc>>
                 /\ \A i \in 1..Len(calls') : calls'[i] = Reply("denied", m.chat_id))]_vars

\* C14 witness: a stranger sent /start while the owner had stopped the
\* processing; the flag is still false and the stranger was refused.
UnauthorizedInertWitness ==
    /\ message.chat_id # my_id
    /\ message.text = "/start"
    /\ message.sent
    /\ ~running_main_loop
    /\ calls = <<Reply("denied", message.chat_id)>>

\* The latest direct call was made with a ticket whose transition or assign
\* call raised.
CallFailed(lg, k) == Says(lg, k, "error assigning") \/ Says(lg, k, "error reassigning")

\* The latest direct call ended by the exception of a malformed record.
MalformedRaised(t, lg) ==
    ~t.wellformed /\ ~in_skip_list(t) /\ ~Says(lg, t.key, "in cache")

\* C15 as stated: a ticket whose processing failed (transition or assign call
\* raised, or malformed record) is not in the cache afterwards.
PerTicketFailureNotCached ==
    [][arg' # NoArg =>
          ((CallFailed(log', arg'.key) \/ MalformedRaised(arg', log'))
              => arg'.key \notin processed_issues_cache')]_vars

\* C15 amended: a ticket whose transition or assign call raised is cached for
\* the short TTL all the same; only a malformed record is left out of the
\* cache. While the entry lives the ticket is answered from the cache with no
\* call; once it is gone a ticket that passes the rules enters the assignment
\* path again.
FailedTicketCachedShort ==
    [][arg' # NoArg =>
          LET k == arg'.key
          IN  /\ CallFailed(log', k)
                    => (/\ k \in processed_issues_cache'
                        /\ k \in DOMAIN cache_expiry'
                        /\ cache_expiry'[k] = now + ShortTTL)
              /\ MalformedRaised(arg', log') => k \notin processed_issues_cache'
              /\ (Cached(k) /\ ~in_skip_list(arg'))
                    => (/\ Says(log', k, "in cache")
                        /\ calls' = <<>>
                        /\ UNCHANGED <<processed_issues_cache, cache_expiry, to_assign>>)
              /\ (/\ ~Cached(k) /\ arg'.wellformed /\ ~in_skip_list(arg')
                  /\ ~comment_matched(arg') /\ ~name_or_creator_matched(arg'))
                    => AssignEntries(log', k) = 1]_vars

\* C15 witness: the transition of K1 raised just now and K1 sits in the cache
\* until now + 300.
FailedTicketCachedWitness ==
    /\ arg # NoArg
    /\ arg.key = "K1"
    /\ Says(log, "K1", "error assigning")
    /\ CountCalls(calls, "transition", "K1") = 1
    /\ "K1" \in processed_issues_cache
    /\ cache_expiry["K1"] = now + ShortTTL

\* C16: every well-formed ticket of a fetched batch is processed in that
\* cycle (a line about it is logged), whatever happened to the tickets before
\* it. A malformed record ends the for loop instead.
BatchIsolation ==
    [][\A batch \in Batches :
          NewIssuesBatch(batch, FALSE)
             => \A i \in 1..Len(batch) :
                   batch[i].t.wellformed => Mentions(log', batch[i].t.key)]_vars

\* C17: when the notification of a ticket raises, the step still holds the one
\* transition call and no second send, makes the assign call for the picked
\* operator if the ticket is not theirs yet, leaves the index advanced and the
\* ticket cached for the short TTL; and a ticket answered from the cache is
\* never notified.
NotificationBestEffort ==
    /\ [][\A t \in {arg'} \ {NoArg} :
             (ProcessTicket(t, {"send"}) /\ CountCalls(calls', "send", t.key) = 1) =>
                LET k == t.key
                    pair == picks'[Len(picks')]
                IN  /\ Says(log', k, "error sending")
                    /\ ~Says(log', k, "error assigning")
                    /\ Len(picks') = Len(picks) + 1
                    /\ pair = pick(to_assign)
                    /\ to_assign' = rotate(to_assign)
                    /\ CountCalls(calls', "transition", k) = 1
                    /\ calls'[1].op = "transition"
                    /\ t.assignee # pair[1]
                          => calls'[Len(calls')] = Call("assign", k, 0, pair[1])
                    /\ k \in processed_issues_cache'
                    /\ cache_expiry'[k] = now + ShortTTL]_vars
    /\ [][(arg' # NoArg /\ Cached(arg'.key)) => CountCalls(calls', "send", arg'.key) = 0]_vars

\* C17 witness: the notification of K1 raised, K1 was assigned to the first
\* operator of the rotation all the same and is cached.
NotificationBestEffortWitness ==
    /\ arg # NoArg
    /\ arg.key = "K1"
    /\ Says(log, "K1", "error sending")
    /\ CountCalls(calls, "assign", "K1") = 1
    /\ to_assign = 1
    /\ Cached("K1")

\* The runners with a Timer pending.
Scheduled(pc) == {r \in Runners : pc[r] = "timer"}

WatcherCeilingRestarts ==
    [][(WatchEntry /\ search_updates_call_count + 1 > max_call_count)
          => (search_updates_call_count' = 0 /\ upd_pc' = "timer")]_vars

\* C19 amended: an entry of the watcher that takes its counter over the
\* ceiling logs it and returns; the counter keeps the value ceiling+1, nothing
\* is scheduled, no search is made, and from then on the watcher stays
\* stopped.
WatcherCeilingStops ==
    /\ [](search_updates_call_count \in 0..(max_call_count + 1))
    /\ [][(WatchEntry /\ search_updates_call_count + 1 > max_call_count)
             => /\ search_updates_call_count' = max_call_count + 1
                /\ upd_pc' = "done"
                /\ Says(log', "-", "watcher stop")
                /\ calls' = <<>>]_vars
    /\ [][(upd_pc = "done" /\ search_updates_call_count > max_call_count)
             => (upd_pc' = "done" /\ UNCHANGED search_updates_call_count)]_vars
    /\ [][search_updates_call_count' >= search_updates_call_count]_vars

\* C19 witness: the watcher has returned at the ceiling.
WatcherCeilingStopsWitness ==
    /\ upd_pc = "done"
    /\ search_updates_call_count = max_call_count + 1
    /\ Says(log, "-", "watcher stop")
    /\ running_main_loop /\ running_by_time

\* A search of the poller has just raised and an invocation that fetched is in
\* its sleep.
FetchFailed ==
    /\ Says(log, "-", "error fetching")
    /\ \E r \in Runners : loop_pc[r] = "sleep"

\* C20: a search that raises is caught inside the batch: the invocation goes
\* on to its sleep, no invocation ends because of it, and while both flags are
\* set another search follows.
SelfHealing ==
    /\ [][\A r \in Runners :
             LoopBatch(r)
                => (/\ loop_pc'[r] = "sleep"
                    /\ \A q \in Runners \ {r} : loop_pc'[q] = loop_pc[q]
                    /\ Says(log', "-", "error fetching") => calls' = <<>>)]_vars
    /\ FetchFailed ~> (AnyBatch \/ ~running_main_loop \/ ~running_by_time)

\* C20 witness: the search of the main poller raised, both flags are set and
\* the poller sleeps before its next iteration.
SelfHealingWitness ==
    /\ Says(log, "-", "error fetching")
    /\ loop_pc["main"] = "sleep"
    /\ loop_pc["tg"] = "idle" /\ loop_pc["timer"] = "idle"
    /\ running_main_loop /\ running_by_time

\* stop() has been called (no command arrives in SpecStop).
stop_called == ~running_main_loop

\* The watcher is not inside its loop.
WatcherExited == upd_pc \in {"idle", "done"}

\* check_time() is not inside its loop.
TimeGateExited == tg_pc \in {"idle", "done"}

\* C21: stop() clears both flags, which stay cleared; after it no batch of the
\* poller or of the watcher starts; the poller, the watcher and the Time Gate
\* all leave their loops.
CooperativeShutdown ==
    /\ [][Stop => (~running_main_loop' /\ ~running_by_time')]_vars
    /\ [][stop_called =>
             /\ \A r \in Runners : loop_pc'[r] = "batch" => loop_pc[r] = "batch"
             /\ upd_pc' = "batch" => upd_pc = "batch"]_vars
    /\ stop_called ~> (PollerExited /\ WatcherExited)
    /\ [](stop_called => ~running_by_time)
    /\ stop_called ~> TimeGateExited

\* C22: an invocation of the poller reaches its batch only from the flag check
\* and only when both flags were set at that check; a flag check that finds a
\* flag cleared ends the invocation, which fetches nothing.
BothFlagsGate ==
    /\ [][\A r \in Runners :
             (loop_pc'[r] = "batch" /\ loop_pc[r] # "batch")
                => (loop_pc[r] = "check" /\ running_main_loop /\ running_by_time)]_vars
    /\ [][\A r \in Runners :
             (loop_pc[r] = "check" /\ loop_pc'[r] # "check"
                 /\ (~running_main_loop \/ ~running_by_time))
                => (loop_pc'[r] = "done" /\ UNCHANGED engine_vars)]_vars
    /\ [][\A r \in Runners : LoopBatch(r) => loop_pc[r] = "batch"]_vars

\* C22 witness: the main poller has returned in a sleep hour, with
\* running_main_loop still set and the time-gate flag cleared.
BothFlagsGateWitness ==
    /\ loop_pc["main"] = "done"
    /\ running_main_loop /\ ~running_by_time
    /\ hour \in sleep_hours
    /\ main_loop_call_count = 1

\* A line of the latest step's log reports a failure.
FailureLogged(lg) ==
    \E i \in 1..Len(lg) :
       lg[i].msg \in {"error fetching", "error assigning", "error reassigning",
                      "error sending", "error processing new issues",
                      "error processing updates"}

\* C23: in once mode the exit code is 0 only when the run logged no failure,
\* and non-zero when a batch failed.
OnceExitCode ==
    exit_code # NoExit => (exit_code = 0 <=> ~FailureLogged(log))

\* C24: with an empty rotation no worker loop is ever started and no ticket
\* is transitioned.
EmptyRotationFailsFast ==
    rotation = <<>> =>
        (/\ ~started
         /\ \A i \in 1..Len(calls) : calls[i].op # "transition")

\* C25: for a sequence of tickets _get_list returns three lists as long as the
\* sequence whose i-th entries are the key, the creator and the title of the
\* i-th ticket.
GetListParallel ==
    (\A i \in 1..Len(issues_raw) : issues_raw[i].wellformed) =>
        /\ ~lists.raised
        /\ Len(lists.issues) = Len(issues_raw)
        /\ Len(lists.creators) = Len(issues_raw)
        /\ Len(lists.names) = Len(issues_raw)
        /\ \A i \in 1..Len(issues_raw) :
              /\ lists.issues[i] = issues_raw[i].key
              /\ lists.creators[i] = issues_raw[i].creator
              /\ lists.names[i] = issues_raw[i].summary

\* C25 witness: three tickets that differ in every field, returned in the
\* order of the input.
GetListParallelWitness ==
    /\ Len(issues_raw) = 3
    /\ lists.issues = <<"K0", "K1", "K2">>
    /\ lists.creators = <<"user", "vivashov", "user">>
    /\ lists.names = << <<"r", "p">>, <<"r", "p">>, <<"x", "P", "R">> >>

\* C26: whatever the interleaving of overlapping invocations, a ticket gets at
\* most one transition, one pick and one notification within the short TTL
\* (the clock does not move in SpecRace).
NoDoubleAssignment ==
    \A k \in Keys :
       /\ CountCalls(calls, "transition", k) <= 1
       /\ CountCalls(calls, "send", k) <= 1
       /\ CountCalls(calls, "assign", k) <= 1

\* No invocation is between its pick and the write of the index.
PicksCompleted == \A w \in Workers : proc[w].pc \notin {"rotate_read", "rotate_write"}

\* C27: whatever the interleaving, after n completed picks the index is
\* n mod K and no two consecutive picks returned the same pair.
RotationRaceFree ==
    /\ PicksCompleted => to_assign = Len(picks) % Len(rotation)
    /\ \A i \in 1..(Len(picks) - 1) : picks[i] # picks[i + 1]

\* C28: whatever the poller does, the Time Gate reads the clock in every hour
\* that passes (also an hour that ends while the poller it invoked is fetching
\* or sleeping), and once it has invoked the poller it comes back to its hour
\* check.
LoopIsolation ==
    /\ [][(hour' # hour /\ (tg_pc = "in_loop" => loop_pc["tg"] \in {"batch", "sleep"}))
             => tg_checked]_vars
    /\ (tg_pc = "in_loop") ~> (tg_pc = "check")

\* C29: once every invocation of the poller has returned and no Timer is
\* pending, a step that sets a flag leaves the poller where it is, and the
\* poller is entered again only by the wake sequence; an invocation that has
\* returned is never resumed, and a batch starts only from a flag check of a
\* live invocation.
FlagAloneNeverResumes ==
    /\ [][(started /\ PollerExited)
             => (PollerExited' \/ (tg_pc = "call_loop" /\ tg_pc' = "in_loop"))]_vars
    /\ [][(running_main_loop' # running_main_loop \/ running_by_time' # running_by_time)
             => loop_pc' = loop_pc]_vars
    /\ [][loop_pc["main"] = "done" => loop_pc'["main"] = "done"]_vars
    /\ [][\A r \in Runners :
             (loop_pc'[r] = "batch" /\ loop_pc[r] # "batch") => loop_pc[r] = "check"]_vars

\* C29 witness: the main poller returned on "-", /start has set the flag
\* again, both flags are set and no invocation of the poller is alive.
FlagAloneNeverResumesWitness ==
    /\ loop_pc["main"] = "done"
    /\ loop_pc["tg"] = "idle" /\ loop_pc["timer"] = "idle"
    /\ running_main_loop /\ running_by_time
    /\ tg_pc = "sleep"
    /\ hour = 12 /\ ~flag

\* The position of the first line msg about k in lg, 0 if there is none.
LineAt(lg, k, msg) ==
    IF Says(lg, k, msg)
    THEN CHOOSE i \in 1..Len(lg) :
            /\ lg[i] = [key |-> k, msg |-> msg]
            /\ \A j \in 1..(i - 1) : lg[j] # lg[i]
    ELSE 0

\* The calls of one assignment of t to pair, in protocol order.
ProtocolCalls(t, pair) ==
    <<Call("transition", t.key, 0, transition_id)>>
       \o (IF bot THEN <<Call("send", t.key, pair[2], "-")>> ELSE <<>>)
       \o (IF t.assignee # pair[1] THEN <<Call("assign", t.key, 0, pair[1])>> ELSE <<>>)

\* C30: in a non-dry run a ticket that passes the filters and is not in the
\* cache gets, in this order and once each, the transition request, the pick
\* (logged after the transition, and not made when the transition raises),
\* the notification to the picked target, the assign call for the picked
\* operator if the assignee differs, and the cache entry for 300 s.
AssignmentProtocolOrder ==
    /\ [][\A t \in {arg'} \ {NoArg} :
             (/\ ProcessTicket(t, {})
              /\ ~dry_run /\ ~Cached(t.key) /\ FailsFor(t) = FailModes)
                => LET pair == pick(to_assign)
                   IN  /\ calls' = ProtocolCalls(t, pair)
                       /\ picks' = Append(picks, pair)
                       /\ to_assign' = rotate(to_assign)
                       /\ 0 < LineAt(log', t.key, "transitioned")
                       /\ LineAt(log', t.key, "transitioned")
                             < LineAt(log', t.key, "assigning")
                       /\ t.key \in processed_issues_cache'
                       /\ cache_expiry'[t.key] = now + ShortTTL]_vars
    /\ [][\A t \in {arg'} \ {NoArg} :
             (/\ ProcessTicket(t, {"transition"})
              /\ ~dry_run /\ ~Cached(t.key) /\ FailsFor(t) = FailModes)
                => (/\ calls' = <<Call("transition", t.key, 0, transition_id)>>
                    /\ picks' = picks
                    /\ to_assign' = to_assign)]_vars

\* C30 witness: K1, assigned to nobody, went through the whole protocol with
\* the first operator of the rotation.
AssignmentProtocolOrderWitness ==
    /\ arg # NoArg /\ arg.key = "K1" /\ arg.assignee = NoAssignee
    /\ ~dry_run /\ bot
    /\ Len(calls) = 3
    /\ calls[1].op = "transition" /\ calls[2].op = "send" /\ calls[3].op = "assign"
    /\ calls[2].chat = assignees[1][2] /\ calls[3].user = assignees[1][1]
    /\ picks = <<assignees[1]>>
    /\ Cached("K1") /\ cache_expiry["K1"] = now + ShortTTL

(***************************************************************************)
(* SpecUpd: update batches next to new-ticket batches, the search result   *)
(* of the latest update batch kept                                         *)
(***************************************************************************)

\* _process_updates_batch with what jira.search_issues returned to it.
UpdatesBatchOf(batch, search_fails) ==
    /\ Commit(_process_updates_batch(Self, batch, search_fails))
    /\ new_issues' = batch
    /\ UNCHANGED <<dry_run, bot, now, ret, deadline, arg, running_main_loop,
                   running_by_time, main_loop_call_count, hour, loop_pc, tg_pc,
                   flag, tg_checked, message, watch_vars, exit_code, rotation,
                   issues_raw, lists, proc>>

\* What the updates search may return: tickets of two keys, one of them also
\* with a raw record that lacks a field.
UpdateBatches ==
    {batch \in Batches : \A i \in 1..Len(batch) :
        /\ batch[i].fails = {}
        /\ batch[i].t.key # "K0"}

\* New-ticket batches of one ticket fill the cache and move the rotation.
NextUpd ==
    \/ \E batch \in Batches : Len(batch) = 1 /\ NewIssuesBatch(batch, FALSE)
    \/ \E batch \in UpdateBatches : UpdatesBatchOf(batch, FALSE)
    \/ UpdatesBatchOf(<<>>, TRUE)

SpecUpd == Init /\ [][NextUpd]_vars

(***************************************************************************)
(* SpecGate: the poller, the watcher, the Time Gate and the commands from  *)
(* a start just before or in the wake hour, the poller possibly switched   *)
(* off in the configuration, with searches that return a ticket            *)
(***************************************************************************)

\* Configurations of the feature toggles: all on, or the poller off.
FeatureSets == {Features, Features \ {"main_loop"}}

\* loop() runs in the main_loop thread and inline in the time_loop thread.
GateRunners == {"main", "tg"}

\* What the new-ticket search returns: nothing, or one assignable ticket.
GateBatches ==
    { <<>> } \cup
    { <<item>> : item \in {i \in BatchItems : i.t.key = "K1" /\ i.fails = {}} }

InitGate ==
    /\ InitFields
    /\ rotation = assignees
    /\ dry_run = FALSE
    /\ bot = TRUE
    /\ hour \in {10, 11}

NextGate ==
    \/ \E enabled \in FeatureSets : StartWith(enabled)
    \/ \E r \in GateRunners : LoopEntry(r)
    \/ \E r \in GateRunners : LoopCheck(r)
    \/ \E r \in GateRunners : LoopBatchOf(r, GateBatches)
    \/ \E r \in GateRunners : LoopSleep(r)
    \/ WatchEntry
    \/ WatchSleep
    \/ WatchBatch
    \/ WatchRaise
    \/ WatchTimer
    \/ TgCheck
    \/ TgSettle
    \/ TgCallLoop
    \/ TgReturn
    \/ TgSleep
    \/ HourTick /\ hour < 12
    \/ \E m \in RunMessages : Command(m)

SpecGate == InitGate /\ [][NextGate]_vars

(***************************************************************************)
(* Frames of the Update Watcher and of the two flag writers                *)
(***************************************************************************)

\* How often key k occurs in a batch the search returned.
Returned(batch, k) == Cardinality({i \in 1..Len(batch) : batch[i].t.key = k})

\* C31: a batch of the Update Watcher makes no transition and no assign call,
\* leaves the Dedup Cache, its expiry map, the rotation index, the pick history
\* and both run flags as they were, and sends at most one notification per
\* returned ticket, each of them to the owner id.
UpdateWatcherFrame ==
    [][\A search_fails \in BOOLEAN :
          UpdatesBatchOf(new_issues', search_fails)
             => /\ \A i \in 1..Len(calls') :
                      /\ calls'[i].op = "send"
                      /\ calls'[i].chat = my_id
                /\ \A k \in Keys :
                      CountCalls(calls', "send", k) <= Returned(new_issues', k)
                /\ UNCHANGED <<processed_issues_cache, cache_expiry, to_assign,
                               picks, assigned_at, running_main_loop,
                               running_by_time>>]_vars

\* C31 witness: after an earlier new-ticket batch has cached and assigned a
\* ticket, an update batch of two tickets has sent two notifications to the
\* owner, and the cache and the rotation index still hold what that earlier
\* batch left.
UpdateWatcherFrameWitness ==
    /\ Len(new_issues) = 2
    /\ Len(calls) = 2
    /\ \A i \in 1..2 : calls[i].op = "send" /\ calls[i].chat = my_id
    /\ Says(log, calls[1].key, "updated")
    /\ processed_issues_cache # {}
    /\ to_assign = 1
    /\ Len(picks) = 1

FailsARule(t) == in_skip_list(t) \/ comment_matched(t) \/ name_or_creator_matched(t)

\* C33 as stated: every well-formed ticket that fails a rule, the skip-set
\* rule included, and is not cached when the call starts is in the Dedup Cache
\* with the long TTL after the call.
RuleFailedCachedLong ==
    [][\A t \in {arg'} \ {NoArg} :
          (t.wellformed /\ FailsARule(t) /\ ~Cached(t.key))
             => /\ t.key \in processed_issues_cache'
                /\ t.key \in DOMAIN cache_expiry'
                /\ cache_expiry'[t.key] = now + LongTTL]_vars

\* C33 amended: a well-formed ticket outside the skip set that is not cached
\* and matches the comment rule or the title/creator rule is in the cache with
\* the long TTL after the call; a ticket of the skip set is answered before
\* the cache is looked at, and the call leaves the cache and the expiry map
\* as they were, so that ticket is never in the cache.
RuleFailedCachedUnlessSkipSet ==
    /\ [][\A t \in {arg'} \ {NoArg} :
             (/\ t.wellformed /\ ~in_skip_list(t) /\ ~Cached(t.key)
              /\ comment_matched(t) \/ name_or_creator_matched(t))
                => /\ t.key \in processed_issues_cache'
                   /\ t.key \in DOMAIN cache_expiry'
                   /\ cache_expiry'[t.key] = now + LongTTL]_vars
    /\ [][\A t \in {arg'} \ {NoArg} :
             in_skip_list(t) => UNCHANGED <<processed_issues_cache, cache_expiry>>]_vars
    /\ [](\A k \in to_skip : k \notin processed_issues_cache
                               /\ k \notin DOMAIN cache_expiry)

\* C33 witness: a K0 ticket that also matches the comment rule has been
\* processed and is not in the cache, while a filtered K1 is.
RuleFailedCachedWitness ==
    /\ arg # NoArg /\ arg.key = "K0" /\ arg.wellformed
    /\ comment_matched(arg)
    /\ log = <<[key |-> "K0", msg |-> "skip list"]>>
    /\ "K0" \notin processed_issues_cache
    /\ "K1" \in processed_issues_cache
    /\ cache_expiry["K1"] - LongTTL \in Instants

(***************************************************************************)
(* The poller and the watcher beside the Time Gate and the commands        *)
(***************************************************************************)

\* The invocations of loop() that are fetching a batch.
Fetching == {r \in Runners : loop_pc[r] = "batch"}

\* C34: at no time are two invocations of the poller entry point fetching a
\* batch.
SinglePollerInstance == Cardinality(Fetching) <= 1

\* C35: for a ticket that reaches the assignment path outside dry-run, a
\* raising transition request leaves the rotation index and the pick history as
\* they were and no notification and no assign call is made for the ticket; a
\* transition that succeeds is followed by exactly one pick and the index moves
\* on by one, also when the notification or the assign call raises.
RotationAfterTransition ==
    [][\A t \in {arg'} \ {NoArg} : \A fails \in FailModes :
          (/\ ProcessTicket(t, fails)
           /\ ~dry_run /\ ~Cached(t.key) /\ FailsFor(t) = FailModes)
             => IF "transition" \in fails
                THEN /\ to_assign' = to_assign
                     /\ picks' = picks
                     /\ CountCalls(calls', "send", t.key) = 0
                     /\ CountCalls(calls', "assign", t.key) = 0
                ELSE /\ to_assign' = (to_assign + 1) % Len(rotation)
                     /\ Len(picks') = Len(picks) + 1
                     /\ CountCalls(calls', "transition", t.key) = 1]_vars

\* C35 witness: the transition of K1 succeeded, its assign call raised, and the
\* index has moved from 0 to 1.
RotationAfterTransitionWitness ==
    /\ arg # NoArg /\ arg.key = "K1"
    /\ ~dry_run
    /\ Says(log, "K1", "transitioned")
    /\ Says(log, "K1", "error reassigning")
    /\ Len(picks) = 1
    /\ to_assign = 1

\* C36: running_main_loop, once cleared by "-", is set again only by /start
\* from the owner, never by a step of the Time Gate or of a worker, and an
\* invocation of the poller starts a batch only from a flag check made while
\* running_main_loop is set. So between "-" and the next /start from the owner
\* every flag check ends the invocation that makes it, the one the wake
\* sequence invokes included.
ManualStopSurvivesWake ==
    /\ [][(~running_main_loop /\ running_main_loop')
             => \E m \in RunMessages :
                   m.text = "/start" /\ m.chat_id = my_id /\ Command(m)]_vars
    /\ [][\A r \in Runners :
             (loop_pc[r] # "batch" /\ loop_pc'[r] = "batch")
                => (loop_pc[r] = "check" /\ running_main_loop)]_vars
    /\ [][\A r \in Runners :
             (loop_pc[r] = "check" /\ loop_pc'[r] # "check" /\ ~running_main_loop)
                => loop_pc'[r] = "done"]_vars

\* C36 witness: "-" ended the poller of the main_loop thread in a sleep hour;
\* in the wake hour the Time Gate has set its flag again and invoked the
\* poller, which returned at its first flag check without a batch.
ManualStopSurvivesWakeWitness ==
    /\ ~running_main_loop
    /\ running_by_time
    /\ hour = wake_up_hour /\ flag
    /\ tg_pc = "sleep"
    /\ loop_pc["main"] = "done"
    /\ loop_pc["tg"] = "idle"
    /\ main_loop_call_count = 2

\* start() has run with the main_loop toggle off: other threads exist, the
\* main_loop thread was never started.
PollerDisabled == started /\ loop_pc["main"] = "idle"

\* C37: with the main_loop toggle off no invocation of the poller ever fetches
\* a new-ticket batch.
DisabledPollerStaysDisabled == PollerDisabled => Fetching = {}

\* search_updates_timeout has returned from the flag test of its loop: it is
\* over and its counter is within the ceiling.
WatcherStoppedByFlag ==
    upd_pc = "done" /\ search_updates_call_count <= max_call_count

\* C38: once the watcher has returned because a run flag was cleared, it stays
\* returned whatever happens (flags set again, wake sequence, /start): its
\* entry point is not called again, so no update batch follows, and a watcher
\* position changes only by a step of the watcher itself.
WatcherNeverResumes ==
    /\ [][WatcherStoppedByFlag
             => (upd_pc' = "done"
                 /\ search_updates_call_count' = search_updates_call_count)]_vars
    /\ [][(upd_pc' = "batch" /\ upd_pc # "batch")
             => (upd_pc = "sleep" /\ may_poll)]_vars
    /\ [][(started /\ upd_pc' # upd_pc) => WatchStep]_vars

\* C38 witness: the watcher returned during the settle delay of the wake
\* sequence; both flags are set again, /start or not, the poller invoked by the
\* Time Gate is fetching, and the watcher is still over.
WatcherNeverResumesWitness ==
    /\ WatcherStoppedByFlag
    /\ search_updates_call_count = 1
    /\ running_main_loop /\ running_by_time
    /\ hour = wake_up_hour /\ flag
    /\ tg_pc = "in_loop"
    /\ loop_pc["tg"] = "batch"

(***************************************************************************)
(* The Dedup Cache as a data structure                                     *)
(***************************************************************************)

\* Every entry but that of key k is what it was.
OthersUntouched(k) ==
    \A j \in Keys \ {k} :
        /\ (j \in processed_issues_cache') = (j \in processed_issues_cache)
        /\ (j \in DOMAIN cache_expiry') = (j \in DOMAIN cache_expiry)
        /\ j \in DOMAIN cache_expiry => cache_expiry'[j] = cache_expiry[j]

\* C39: the cached set and the key set of the expiry map are equal after any
\* sequence of _cache_issue and _is_cached calls; either call leaves the entry
\* of every other key as it was; and a key leaves the cache only by a lookup of
\* that key made when the clock is not before its expiry.
CacheRepresentation ==
    /\ [](processed_issues_cache = DOMAIN cache_expiry)
    /\ [][\A k \in Keys :
             ((\E ttl \in TTLs : CacheIssue(k, ttl)) \/ IsCached(k))
                => OthersUntouched(k)]_vars
    /\ [][\A k \in Keys :
             (k \in processed_issues_cache /\ k \notin processed_issues_cache')
                => (IsCached(k) /\ now >= cache_expiry[k])]_vars

\* C39 witness: K1 and K2 were cached with different TTLs, the TTL of K1
\* passed and a lookup of K1 removed it; K2 is still there with its expiry.
CacheRepresentationWitness ==
    /\ log = <<[key |-> "K1", msg |-> "_is_cached"]>>
    /\ ret = FALSE
    /\ deadline["K1"] # NoTime /\ now >= deadline["K1"]
    /\ processed_issues_cache = {"K2"}
    /\ DOMAIN cache_expiry = {"K2"}
    /\ cache_expiry["K2"] = deadline["K2"]
    /\ now < cache_expiry["K2"]

\* C40: a call of _process_new_issue for an assignable ticket that is not
\* cached and whose external calls do not raise moves the rotation index on by
\* one, records one pick and leaves the ticket in the cache with the 300 s
\* expiry, with dry_run set as without it; with dry_run set it makes no
\* external call.
DryRunChangesState ==
    [][\A t \in {arg'} \ {NoArg} :
          (/\ ProcessTicket(t, {})
           /\ ~Cached(t.key) /\ FailsFor(t) = FailModes)
             => /\ to_assign' = (to_assign + 1) % Len(rotation)
                /\ picks' = Append(picks, rotation[to_assign + 1])
                /\ t.key \in processed_issues_cache'
                /\ cache_expiry'[t.key] = now + ShortTTL
                /\ dry_run => calls' = <<>>]_vars

\* C40 witness: in dry-run mode K1 was processed: nothing was called, the
\* index stands at 1 and K1 is cached for 300 s.
DryRunChangesStateWitness ==
    /\ dry_run
    /\ arg # NoArg /\ arg.key = "K1"
    /\ calls = <<>>
    /\ Says(log, "K1", "would transition")
    /\ Says(log, "K1", "would notify")
    /\ to_assign = 1
    /\ picks = <<assignees[1]>>
    /\ "K1" \in processed_issues_cache
    /\ cache_expiry["K1"] = now + 300

====
